---- MODULE Spec2Model ----
(***************************************************************************)
(* KSRS: the SM-2 scheduler (sm2.ts, kept in src/lib/fuzzy/match.test.ts   *)
(* lines 171-328), the fuzzy matcher (src/lib/fuzzy/match.ts) and the      *)
(* usefulness scorer (src/lib/usefulness/score.ts) and the review route    *)
(* (src/app/api/review/[deckId]/route.ts).                                 *)
(*                                                                         *)
(* Numbers.  JavaScript numbers are modelled as exact decimals: an ease    *)
(* factor is an integer number of hundredths (2.5 is 250), an interval is  *)
(* a fraction [n, d] of days in lowest terms, and an instant is a whole    *)
(* number of milliseconds kept as [day, ms] (a Date holds whole            *)
(* milliseconds).  The rounding of IEEE-754 doubles is not modelled.       *)
(***************************************************************************)
EXTENDS Integers, Sequences, FiniteSets, TLC

VARIABLES
    state,        \* the CardState of the card under review
    last,         \* the latest calculateNextReview call: its arguments and result
    history,      \* the ratings given so far
    limit,        \* the number of reviews this run applies
    textExpected, \* fuzzyMatch's first argument
    textActual,   \* fuzzyMatch's second argument
    matchResult,  \* the MatchResult returned, or NoMatchResult before the call
    normalized,   \* normalizeKorean's result, or NoNormalized before the call
    comparison,   \* the results of comparing two strings, or NoComparison
    scoreCard,    \* calculateUsefulness's first argument
    scoreConfig,  \* calculateUsefulness's second argument
    scoring,      \* the ScoreResult returned and the calls made, or NoScoring
    cardProgressTable, \* the CardProgress rows, in the order of their creation
    reviewLogTable,    \* the ReviewLog rows, in the order of their creation
    requests,          \* the requests the review route has received
    confusionTip,      \* getConfusionTip's result, or NoConfusionTip
    intervalDisplay,   \* getIntervalDisplay's argument and label
    preview,           \* the progress of a card and the intervals a page previews
    pageCheck,         \* what the typing page's handleCheck computes
    reviewSession      \* the state of a review page

schedVars == <<state, last, history, limit>>
fuzzyVars == <<textExpected, textActual, matchResult, normalized, comparison>>
scoreVars == <<scoreCard, scoreConfig, scoring>>
routeVars == <<cardProgressTable, reviewLogTable, requests>>
tipVars == <<confusionTip>>
pageVars == <<intervalDisplay, preview, pageCheck, reviewSession>>
nonRouteVars == <<schedVars, fuzzyVars, scoreVars, tipVars, pageVars>>
vars == <<schedVars, fuzzyVars, scoreVars, routeVars, tipVars, pageVars>>

(***************************************************************************)
(* Bounds of the model.                                                    *)
(***************************************************************************)
\* The longest sequence of reviews applied to one card.
MaxReviews == 7
\* A successful review is applied only while repetitions is below this.
MaxReps == 3
\* The number of reviews applied to an arbitrary prior state (SpecAny).
MaxAnySteps == 1
\* The longest text that follows the common prefix of fuzzyMatch's arguments.
MaxLen == 2
\* The length of that common prefix, when there is one.
PadLen == 19
\* The longest text normalizeKorean is applied to on its own.
MaxNormalizeLen == 3
\* The longest string compared on its own (distance, similarity, differences).
MaxCompareLen == 3
\* The longest list of freely chosen tags on a scored card.
MaxTags == 2
\* The most copies of one tag on a scored card.
MaxRepeatedTags == 7

(***************************************************************************)
(* Exact arithmetic on non-negative fractions.                             *)
(***************************************************************************)
RECURSIVE GCD(_, _)
GCD(a, b) == IF b = 0 THEN a ELSE GCD(b, a % b)

\* The fraction n/d in lowest terms (n >= 0, d > 0).
Rat(n, d) == LET g == GCD(n, d) IN [n |-> n \div g, d |-> d \div g]

\* The product of two fractions; the common factors are cancelled before
\* the multiplication so that no intermediate value outgrows the result.
RMul(a, b) ==
    LET g1 == GCD(a.n, b.d)
        g2 == GCD(b.n, a.d)
    IN  [n |-> (a.n \div g1) * (b.n \div g2),
         d |-> (a.d \div g2) * (b.d \div g1)]

\* n1/d1 < n2/d2, by whole parts and then by the reciprocals of the
\* remainders (no cross product is formed).
RECURSIVE FracLt(_, _, _, _)
FracLt(n1, d1, n2, d2) ==
    LET q1 == n1 \div d1
        q2 == n2 \div d2
        r1 == n1 % d1
        r2 == n2 % d2
    IN  IF q1 # q2 THEN q1 < q2
        ELSE IF r2 = 0 THEN FALSE
        ELSE IF r1 = 0 THEN TRUE
        ELSE FracLt(d2, r2, d1, r1)

RLt(a, b) == FracLt(a.n, a.d, b.n, b.d)
RLe(a, b) == ~RLt(b, a)

\* An ease factor (hundredths) as a fraction.
EaseAsRat(e) == Rat(e, 100)

(***************************************************************************)
(* Instants: whole milliseconds, kept as a day and the millisecond in it.  *)
(***************************************************************************)
MsPerDay == 24 * 60 * 60 * 1000

Time(day, ms) == [day |-> day, ms |-> ms]

TimeLe(a, b) == a.day < b.day \/ (a.day = b.day /\ a.ms <= b.ms)

\* a + k milliseconds, 0 <= k < 2 * MsPerDay.
TimePlusMs(a, k) ==
    LET t == a.ms + k
    IN  Time(a.day + t \div MsPerDay, t % MsPerDay)

\* floor(r * f1 * ... * fk / d) for 0 <= r < d, one factor at a time.
RECURSIVE MulDivFloor(_, _, _, _)
MulDivFloor(q, r, d, fs) ==
    IF fs = <<>> THEN q
    ELSE LET t == r * Head(fs)
         IN  MulDivFloor(q * Head(fs) + t \div d, t % d, d, Tail(fs))

\* The whole milliseconds in the fraction num/den of a day (num < den).
FloorMs(num, den) == MulDivFloor(0, num, den, <<24, 60, 60, 10, 10, 10>>)

\* Mutant of setTime: whole days only (as Date.setDate would add them).
setTimeWholeDays(now, days) == Time(now.day + days.n \div days.d, now.ms)

\* Date.setTime(now.getTime() + days * 24 * 60 * 60 * 1000): the time value
\* of a Date is an integer, the fraction of a millisecond is dropped.
setTime(now, days) ==
    TimePlusMs(Time(now.day + days.n \div days.d, now.ms),
               FloorMs(days.n % days.d, days.d))

(***************************************************************************)
(* The scheduler.                                                          *)
(***************************************************************************)
Again == 1
Hard == 2
Good == 3
Easy == 4
Ratings == {Again, Hard, Good, Easy}

MinEaseFactor == 130
DefaultEaseFactor == 250

CardState(e, i, r, due) ==
    [easeFactor |-> e, intervalDays |-> i, repetitions |-> r, dueAt |-> due]

getInitialState(now) == CardState(DefaultEaseFactor, Rat(0, 1), 0, now)

Max(a, b) == IF a >= b THEN a ELSE b

\* Mutants of calculateNewEaseFactor: the floor forgotten; a ceiling added.
calculateNewEaseFactorNoFloor(current, rating) ==
    CASE rating = 1 -> current - 20
      [] rating = 2 -> current - 15
      [] rating = 3 -> current
      [] rating = 4 -> current + 15
      [] OTHER -> current

calculateNewEaseFactorCeiling(current, rating) ==
    LET e == Max(MinEaseFactor, calculateNewEaseFactorNoFloor(current, rating))
    IN  IF e > DefaultEaseFactor /\ e > current THEN current ELSE e

calculateNewEaseFactor(current, rating) ==
    LET newEase == CASE rating = 1 -> current - 20
                     [] rating = 2 -> current - 15
                     [] rating = 3 -> current
                     [] rating = 4 -> current + 15
                     [] OTHER -> current
    IN  Max(MinEaseFactor, newEase)

\* Mutants of calculateNextInterval: Again leaves interval 0 (as the
\* classic SM-2 reset does); the second Easy review gives 10 days; an
\* established Easy review forgets the 1.3 bonus; Hard on an established
\* card keeps the interval.
calculateNextIntervalAgainZero(st, rating) ==
    IF rating = 1 THEN Rat(0, 1)
    ELSE IF st.repetitions = 0
         THEN IF rating = 4 THEN Rat(4, 1) ELSE Rat(1, 1)
    ELSE IF st.repetitions = 1
         THEN IF rating = 4 THEN RMul(Rat(6, 1), Rat(13, 10))
              ELSE IF rating = 2 THEN RMul(Rat(6, 1), Rat(12, 10))
              ELSE Rat(6, 1)
    ELSE CASE rating = 2 -> RMul(st.intervalDays, Rat(12, 10))
           [] rating = 3 -> RMul(st.intervalDays, EaseAsRat(st.easeFactor))
           [] rating = 4 -> RMul(RMul(st.intervalDays, EaseAsRat(st.easeFactor)),
                                 Rat(13, 10))
           [] OTHER -> st.intervalDays

calculateNextIntervalSecondEasyTen(st, rating) ==
    IF rating = 1 THEN Rat(1, 24 * 60)
    ELSE IF st.repetitions = 0
         THEN IF rating = 4 THEN Rat(4, 1) ELSE Rat(1, 1)
    ELSE IF st.repetitions = 1
         THEN IF rating = 4 THEN Rat(10, 1)
              ELSE IF rating = 2 THEN RMul(Rat(6, 1), Rat(12, 10))
              ELSE Rat(6, 1)
    ELSE CASE rating = 2 -> RMul(st.intervalDays, Rat(12, 10))
           [] rating = 3 -> RMul(st.intervalDays, EaseAsRat(st.easeFactor))
           [] rating = 4 -> RMul(RMul(st.intervalDays, EaseAsRat(st.easeFactor)),
                                 Rat(13, 10))
           [] OTHER -> st.intervalDays

calculateNextIntervalEasyNoBonus(st, rating) ==
    IF rating = 1 THEN Rat(1, 24 * 60)
    ELSE IF st.repetitions = 0
         THEN IF rating = 4 THEN Rat(4, 1) ELSE Rat(1, 1)
    ELSE IF st.repetitions = 1
         THEN IF rating = 4 THEN RMul(Rat(6, 1), Rat(13, 10))
              ELSE IF rating = 2 THEN RMul(Rat(6, 1), Rat(12, 10))
              ELSE Rat(6, 1)
    ELSE CASE rating = 2 -> RMul(st.intervalDays, Rat(12, 10))
           [] rating = 3 -> RMul(st.intervalDays, EaseAsRat(st.easeFactor))
           [] rating = 4 -> RMul(st.intervalDays, EaseAsRat(st.easeFactor))
           [] OTHER -> st.intervalDays

calculateNextIntervalHardKeeps(st, rating) ==
    IF rating = 1 THEN Rat(1, 24 * 60)
    ELSE IF st.repetitions = 0
         THEN IF rating = 4 THEN Rat(4, 1) ELSE Rat(1, 1)
    ELSE IF st.repetitions = 1
         THEN IF rating = 4 THEN RMul(Rat(6, 1), Rat(13, 10))
              ELSE IF rating = 2 THEN RMul(Rat(6, 1), Rat(12, 10))
              ELSE Rat(6, 1)
    ELSE CASE rating = 2 -> st.intervalDays
           [] rating = 3 -> RMul(st.intervalDays, EaseAsRat(st.easeFactor))
           [] rating = 4 -> RMul(RMul(st.intervalDays, EaseAsRat(st.easeFactor)),
                                 Rat(13, 10))
           [] OTHER -> st.intervalDays

calculateNextInterval(st, rating) ==
    IF rating = 1 THEN Rat(1, 24 * 60)
    ELSE IF st.repetitions = 0
         THEN IF rating = 4 THEN Rat(4, 1) ELSE Rat(1, 1)
    ELSE IF st.repetitions = 1
         THEN IF rating = 4 THEN RMul(Rat(6, 1), Rat(13, 10))
              ELSE IF rating = 2 THEN RMul(Rat(6, 1), Rat(12, 10))
              ELSE Rat(6, 1)
    ELSE CASE rating = 2 -> RMul(st.intervalDays, Rat(12, 10))
           [] rating = 3 -> RMul(st.intervalDays, EaseAsRat(st.easeFactor))
           [] rating = 4 -> RMul(RMul(st.intervalDays, EaseAsRat(st.easeFactor)),
                                 Rat(13, 10))
           [] OTHER -> st.intervalDays

\* Mutant of calculateNextReview: Again does not reset the repetitions.
calculateNextReviewNoReset(currentState, rating, now) ==
    LET newEaseFactor == calculateNewEaseFactor(currentState.easeFactor, rating)
        newInterval == calculateNextInterval(currentState, rating)
        newRepetitions == IF rating = 1 THEN currentState.repetitions
                          ELSE currentState.repetitions + 1
        nextReviewDate == setTime(now, newInterval)
    IN  [newState |-> CardState(newEaseFactor, newInterval, newRepetitions,
                                nextReviewDate),
         nextReviewDate |-> nextReviewDate]

calculateNextReview(currentState, rating, now) ==
    LET newEaseFactor == calculateNewEaseFactor(currentState.easeFactor, rating)
        newInterval == calculateNextInterval(currentState, rating)
        newRepetitions == IF rating = 1 THEN 0 ELSE currentState.repetitions + 1
        nextReviewDate == setTime(now, newInterval)
    IN  [newState |-> CardState(newEaseFactor, newInterval, newRepetitions,
                                nextReviewDate),
         nextReviewDate |-> nextReviewDate]

isCardDue(st, now) == TimeLe(st.dueAt, now)

(***************************************************************************)
(* The values the usefulness scorer works on.  A JavaScript value is a     *)
(* record that tells its kind; a number is kept in hundredths (50 is 5000, *)
(* 0.25 is 25).                                                            *)
(***************************************************************************)
Undefined == [kind |-> "undefined"]
\* A property a Partial<ScoringConfig> does not have.
Absent == [kind |-> "absent"]
Num(n) == [kind |-> "number", v |-> n]
NaN == [kind |-> "NaN"]
Bool(b) == [kind |-> "boolean", v |-> b]
\* An object with own properties props (a function of their names).
Obj(props) == [kind |-> "object", props |-> props]
\* A string that does not read as a number.
NonNumericString == [kind |-> "string"]
\* A function object, as Object.prototype.constructor is.
FunctionObject == [kind |-> "function"]

CardInput(tags, isPattern, manualScore, frequencyRank) ==
    [tags |-> tags, isPattern |-> isPattern, manualScore |-> manualScore,
     frequencyRank |-> frequencyRank]

ScoringConfig(tagWeights, patternBonus, frequencyWeight, userLevel) ==
    [tagWeights |-> tagWeights, patternBonus |-> patternBonus,
     frequencyWeight |-> frequencyWeight, userLevel |-> userLevel]

\* calculateUsefulness called without a config.
NoConfig == ScoringConfig(Absent, Absent, Absent, Absent)

NoScoring == [computed |-> FALSE]

\* No card is being scored.
NoScore ==
    /\ scoreCard = CardInput(<<>>, Undefined, Undefined, Undefined)
    /\ scoreConfig = NoConfig
    /\ scoring = NoScoring

NoConfusionTip == [computed |-> FALSE]

\* getConfusionTip has not been called.
NoTip == confusionTip = NoConfusionTip

NoDisplay == [computed |-> FALSE]
NoPreview == [computed |-> FALSE]
NoPageCheck == [computed |-> FALSE]
NoReviewSession == [page |-> "none"]

\* No review page is open and getIntervalDisplay has not been called.
NoPage ==
    /\ intervalDisplay = NoDisplay
    /\ preview = NoPreview
    /\ pageCheck = NoPageCheck
    /\ reviewSession = NoReviewSession

\* The review route has received no request and the tables are empty.
NoRoute ==
    /\ cardProgressTable = <<>>
    /\ reviewLogTable = <<>>
    /\ requests = <<>>

(***************************************************************************)
(* The state machine of one card's scheduling state.                       *)
(***************************************************************************)
\* The instants a review is made at.
Nows == {Time(0, 0), Time(1, MsPerDay - 30000)}

NoReview == [rating |-> 0]

NoMatchResult == [isMatch |-> FALSE, computed |-> FALSE]

NoNormalized == [computed |-> FALSE]

NoComparison == [computed |-> FALSE]

\* No text is being matched.
NoFuzzy ==
    /\ textExpected = <<>> /\ textActual = <<>>
    /\ matchResult = NoMatchResult
    /\ normalized = NoNormalized
    /\ comparison = NoComparison

\* No card is being reviewed.
NoSchedule ==
    /\ state = getInitialState(Time(0, 0))
    /\ last = NoReview
    /\ history = <<>>
    /\ limit = 0

Init ==
    /\ \E now \in Nows : state = getInitialState(now)
    /\ last = NoReview
    /\ history = <<>>
    /\ limit = MaxReviews
    /\ NoFuzzy
    /\ NoScore
    /\ NoRoute
    /\ NoTip
    /\ NoPage

\* Prior states of any shape, for the claims made of every prior state.
AnyEase == {130, 140, 145, 250, 265, 1000}
\* (A seventh of a day is not a whole number of milliseconds.)
AnyInterval ==
    {Rat(0, 1), Rat(1, 24 * 60), Rat(1, 7), Rat(1, 1), Rat(15, 1), Rat(39, 5)}

InitAny ==
    /\ \E e \in AnyEase, i \in AnyInterval, r \in 0 .. MaxReps, due \in Nows :
           state = CardState(e, i, r, due)
    /\ last = NoReview
    /\ history = <<>>
    /\ limit = MaxAnySteps
    /\ NoFuzzy
    /\ NoScore
    /\ NoRoute
    /\ NoTip
    /\ NoPage

\* One review: the caller passes the card's state, a rating and the time,
\* and keeps the state returned.
Review(rating, now) ==
    /\ Len(history) < limit
    /\ rating # Again => state.repetitions < MaxReps
    /\ LET r == calculateNextReview(state, rating, now)
       IN  /\ state' = r.newState
           /\ last' = [rating |-> rating, prev |-> state, now |-> now,
                       result |-> r]
    /\ history' = Append(history, rating)
    /\ UNCHANGED <<limit, fuzzyVars, scoreVars, routeVars, tipVars, pageVars>>

Next == \E rating \in Ratings, now \in Nows : Review(rating, now)

Spec == Init /\ [][Next]_vars

SpecAny == InitAny /\ [][Next]_vars

(***************************************************************************)
(* The fuzzy matcher.  A string is a sequence of characters (UTF-16 code   *)
(* units); a character is written as a TLA+ string, a non-ASCII one by its *)
(* name.                                                                   *)
(***************************************************************************)
\* Characters matched by \s (representatives).
WhitespaceChars == {" ", "TAB", "NEWLINE"}
\* The class [.,!?~…""''「」『』].
KoreanPunctuation ==
    {".", ",", "!", "?", "~", "ELLIPSIS", "\"", "'",
     "LCORNER", "RCORNER", "LWHITECORNER", "RWHITECORNER"}
\* The class [.,:;!?'"()[\]{}].
AsciiPunctuation ==
    {".", ",", ":", ";", "!", "?", "'", "\"", "(", ")", "[", "]", "{", "}"}

\* String.prototype.toLowerCase, character by character.
LowerChar(c) ==
    CASE c = "A" -> "a"
      [] c = "B" -> "b"
      [] OTHER -> c

toLowerCase(s) == [k \in 1 .. Len(s) |-> LowerChar(s[k])]

\* s.replace(/[set]/g, ''): every character of the class is removed.
RemoveChars(s, set) == SelectSeq(s, LAMBDA c : c \notin set)

RECURSIVE trimStart(_)
trimStart(s) ==
    IF s # <<>> /\ Head(s) \in WhitespaceChars THEN trimStart(Tail(s)) ELSE s

RECURSIVE trimEnd(_)
trimEnd(s) ==
    IF s # <<>> /\ s[Len(s)] \in WhitespaceChars
    THEN trimEnd(SubSeq(s, 1, Len(s) - 1))
    ELSE s

trim(s) == trimEnd(trimStart(s))

\* Mutant of normalizeKorean: the lower-casing forgotten.
normalizeKoreanKeepCase(text) ==
    trim(RemoveChars(RemoveChars(RemoveChars(text, WhitespaceChars),
                                 KoreanPunctuation),
                     AsciiPunctuation))

\* Mutant of normalizeKorean: the ASCII punctuation pattern without its g
\* flag, so that only the first such character is removed.
normalizeKoreanFirstOnly(text) ==
    LET t == RemoveChars(RemoveChars(text, WhitespaceChars), KoreanPunctuation)
        hits == {k \in 1 .. Len(t) : t[k] \in AsciiPunctuation}
        first == CHOOSE k \in hits : \A m \in hits : k <= m
    IN  trim(toLowerCase(
            IF hits = {} THEN t
            ELSE SubSeq(t, 1, first - 1) \o SubSeq(t, first + 1, Len(t))))

normalizeKorean(text) ==
    trim(toLowerCase(
        RemoveChars(RemoveChars(RemoveChars(text, WhitespaceChars),
                                KoreanPunctuation),
                    AsciiPunctuation)))

Min3(x, y, z) ==
    IF x <= y /\ x <= z THEN x ELSE IF y <= z THEN y ELSE z

\* Mutant of levenshteinRow: no substitution, a character is replaced by a
\* deletion and an insertion.
RECURSIVE levenshteinRowNoSubstitution(_, _, _, _, _)
levenshteinRowNoSubstitution(a, b, i, prev, row) ==
    LET j == Len(row)
    IN  IF j > Len(a) THEN row
        ELSE LET cell == IF b[i] = a[j] THEN prev[j]
                         ELSE Min3(prev[j] + 2, row[j] + 1, prev[j + 1] + 1)
             IN  levenshteinRowNoSubstitution(a, b, i, prev, Append(row, cell))

\* One row of the matrix: row holds matrix[i][0 .. Len(row) - 1] and prev
\* is the full row matrix[i - 1]; column j is kept at index j + 1.
RECURSIVE levenshteinRow(_, _, _, _, _)
levenshteinRow(a, b, i, prev, row) ==
    LET j == Len(row)
    IN  IF j > Len(a) THEN row
        ELSE LET cell == IF b[i] = a[j] THEN prev[j]
                         ELSE Min3(prev[j] + 1, row[j] + 1, prev[j + 1] + 1)
             IN  levenshteinRow(a, b, i, prev, Append(row, cell))

\* Rows i .. Len(b), given row i - 1; the last row is returned.  (Each row
\* is complete, Len(a) + 1 cells, before the next one is begun.)
RECURSIVE levenshteinRows(_, _, _, _)
levenshteinRows(a, b, i, prev) ==
    IF i > Len(b) THEN prev
    ELSE LET row == levenshteinRow(a, b, i, prev, <<i>>)
         IN  IF Len(row) = Len(a) + 1
             THEN levenshteinRows(a, b, i + 1, row)
             ELSE <<>>

\* Mutant of levenshteinDistance: the first row of the matrix is all zeros.
levenshteinDistanceZeroRow(a, b) ==
    levenshteinRows(a, b, 1, [j \in 1 .. Len(a) + 1 |-> 0])[Len(a) + 1]

levenshteinDistance(a, b) ==
    levenshteinRows(a, b, 1, [j \in 1 .. Len(a) + 1 |-> j - 1])[Len(a) + 1]

calculateSimilarity(a, b) ==
    IF a = b THEN Rat(1, 1)
    ELSE IF Len(a) = 0 \/ Len(b) = 0 THEN Rat(0, 1)
    ELSE LET distance == levenshteinDistance(a, b)
             maxLength == Max(Len(a), Len(b))
         IN  Rat(maxLength - distance, maxLength)

\* s.indexOf(ch, from): the first index >= from (counted from 0) holding
\* ch, or -1.
indexOf(s, ch, from) ==
    LET hits == {k \in from .. Len(s) - 1 : s[k + 1] = ch}
    IN  IF hits = {} THEN 0 - 1
        ELSE CHOOSE k \in hits : \A m \in hits : k <= m

\* Mutant of findDifferencesStep: a replacement is pushed without moving
\* either cursor.
findDifferencesStepStuck(expected, actual, i, j) ==
    IF i >= Len(expected)
    THEN [pushed |-> <<[type |-> "insert", position |-> j,
                        actual |-> actual[j + 1]]>>,
          i |-> i, j |-> j + 1]
    ELSE IF j >= Len(actual)
    THEN [pushed |-> <<[type |-> "delete", position |-> i,
                        expected |-> expected[i + 1]]>>,
          i |-> i + 1, j |-> j]
    ELSE IF expected[i + 1] # actual[j + 1]
    THEN IF indexOf(actual, expected[i + 1], j) = j + 1
         THEN [pushed |-> <<[type |-> "insert", position |-> j,
                             actual |-> actual[j + 1]]>>,
               i |-> i, j |-> j + 1]
         ELSE IF indexOf(expected, actual[j + 1], i) = i + 1
         THEN [pushed |-> <<[type |-> "delete", position |-> i,
                             expected |-> expected[i + 1]]>>,
               i |-> i + 1, j |-> j]
         ELSE [pushed |-> <<[type |-> "replace", position |-> i,
                             expected |-> expected[i + 1],
                             actual |-> actual[j + 1]]>>,
               i |-> i, j |-> j]
    ELSE [pushed |-> <<>>, i |-> i + 1, j |-> j + 1]

\* Mutant of findDifferencesStep: the look-ahead for a deletion is tried
\* before the look-ahead for an insertion.
findDifferencesStepDeleteFirst(expected, actual, i, j) ==
    IF i >= Len(expected)
    THEN [pushed |-> <<[type |-> "insert", position |-> j,
                        actual |-> actual[j + 1]]>>,
          i |-> i, j |-> j + 1]
    ELSE IF j >= Len(actual)
    THEN [pushed |-> <<[type |-> "delete", position |-> i,
                        expected |-> expected[i + 1]]>>,
          i |-> i + 1, j |-> j]
    ELSE IF expected[i + 1] # actual[j + 1]
    THEN IF indexOf(expected, actual[j + 1], i) = i + 1
         THEN [pushed |-> <<[type |-> "delete", position |-> i,
                             expected |-> expected[i + 1]]>>,
               i |-> i + 1, j |-> j]
         ELSE IF indexOf(actual, expected[i + 1], j) = j + 1
         THEN [pushed |-> <<[type |-> "insert", position |-> j,
                             actual |-> actual[j + 1]]>>,
               i |-> i, j |-> j + 1]
         ELSE [pushed |-> <<[type |-> "replace", position |-> i,
                             expected |-> expected[i + 1],
                             actual |-> actual[j + 1]]>>,
               i |-> i + 1, j |-> j + 1]
    ELSE [pushed |-> <<>>, i |-> i + 1, j |-> j + 1]

\* One iteration of findDifferences' loop with cursors i and j (counted
\* from 0): the differences pushed and the cursors after it.
findDifferencesStep(expected, actual, i, j) ==
    IF i >= Len(expected)
    THEN [pushed |-> <<[type |-> "insert", position |-> j,
                        actual |-> actual[j + 1]]>>,
          i |-> i, j |-> j + 1]
    ELSE IF j >= Len(actual)
    THEN [pushed |-> <<[type |-> "delete", position |-> i,
                        expected |-> expected[i + 1]]>>,
          i |-> i + 1, j |-> j]
    ELSE IF expected[i + 1] # actual[j + 1]
    THEN LET lookAheadExpected == indexOf(expected, actual[j + 1], i)
             lookAheadActual == indexOf(actual, expected[i + 1], j)
         IN  IF lookAheadActual = j + 1
             THEN [pushed |-> <<[type |-> "insert", position |-> j,
                                 actual |-> actual[j + 1]]>>,
                   i |-> i, j |-> j + 1]
             ELSE IF lookAheadExpected = i + 1
             THEN [pushed |-> <<[type |-> "delete", position |-> i,
                                 expected |-> expected[i + 1]]>>,
                   i |-> i + 1, j |-> j]
             ELSE [pushed |-> <<[type |-> "replace", position |-> i,
                                 expected |-> expected[i + 1],
                                 actual |-> actual[j + 1]]>>,
                   i |-> i + 1, j |-> j + 1]
    ELSE [pushed |-> <<>>, i |-> i + 1, j |-> j + 1]

RECURSIVE findDifferencesLoop(_, _, _, _, _)
findDifferencesLoop(expected, actual, i, j, differences) ==
    IF ~(i < Len(expected) \/ j < Len(actual)) THEN differences
    ELSE LET step == findDifferencesStep(expected, actual, i, j)
             pushed == differences \o step.pushed
             maxLen == Max(Len(expected), Len(actual))
         IN  IF Len(pushed) > maxLen * 2 THEN pushed
             ELSE findDifferencesLoop(expected, actual, step.i, step.j, pushed)

\* Mutant of findDifferences: the loop ends when either string is consumed.
RECURSIVE findDifferencesLoopEither(_, _, _, _, _)
findDifferencesLoopEither(expected, actual, i, j, differences) ==
    IF ~(i < Len(expected) /\ j < Len(actual)) THEN differences
    ELSE LET step == findDifferencesStep(expected, actual, i, j)
         IN  findDifferencesLoopEither(expected, actual, step.i, step.j,
                                       differences \o step.pushed)

findDifferencesEither(expected, actual) ==
    findDifferencesLoopEither(expected, actual, 0, 0, <<>>)

findDifferences(expected, actual) ==
    findDifferencesLoop(expected, actual, 0, 0, <<>>)

\* The same loop with a record of its run: trace holds, for every iteration,
\* the cursors it began with and what it pushed; i and j are the cursors the
\* loop ended with, and broke tells whether the safety valve ended it.
RECURSIVE findDifferencesTrace(_, _, _, _, _, _)
findDifferencesTrace(expected, actual, i, j, differences, trace) ==
    IF ~(i < Len(expected) \/ j < Len(actual))
    THEN [differences |-> differences, i |-> i, j |-> j, trace |-> trace,
          broke |-> FALSE]
    ELSE LET step == findDifferencesStep(expected, actual, i, j)
             pushed == differences \o step.pushed
             maxLen == Max(Len(expected), Len(actual))
             traced == Append(trace, [i |-> i, j |-> j, pushed |-> step.pushed])
         IN  IF Len(pushed) > maxLen * 2
             THEN [differences |-> pushed, i |-> step.i, j |-> step.j,
                   trace |-> traced, broke |-> TRUE]
             ELSE findDifferencesTrace(expected, actual, step.i, step.j,
                                       pushed, traced)

MatchResult(isMatch, similarity, normExpected, normActual, differences) ==
    [computed |-> TRUE, isMatch |-> isMatch, similarity |-> similarity,
     normalizedExpected |-> normExpected,
     normalizedActual |-> normActual, differences |-> differences]

\* Mutant of fuzzyMatch: the threshold is exclusive.
fuzzyMatchStrictThreshold(expected, actual) ==
    LET normalizedExpected == normalizeKorean(expected)
        normalizedActual == normalizeKorean(actual)
    IN  IF normalizedExpected = normalizedActual
        THEN MatchResult(TRUE, Rat(1, 1), normalizedExpected,
                         normalizedActual, <<>>)
        ELSE LET differences ==
                     findDifferences(normalizedExpected, normalizedActual)
                 similarity ==
                     calculateSimilarity(normalizedExpected, normalizedActual)
             IN  MatchResult(RLt(Rat(95, 100), similarity), similarity,
                             normalizedExpected, normalizedActual, differences)

fuzzyMatch(expected, actual) ==
    LET normalizedExpected == normalizeKorean(expected)
        normalizedActual == normalizeKorean(actual)
    IN  IF normalizedExpected = normalizedActual
        THEN MatchResult(TRUE, Rat(1, 1), normalizedExpected,
                         normalizedActual, <<>>)
        ELSE LET differences ==
                     findDifferences(normalizedExpected, normalizedActual)
                 similarity ==
                     calculateSimilarity(normalizedExpected, normalizedActual)
             IN  MatchResult(RLe(Rat(95, 100), similarity), similarity,
                             normalizedExpected, normalizedActual, differences)

(***************************************************************************)
(* The matcher applied to a pair of texts.                                 *)
(***************************************************************************)
\* The characters the texts are written in: two letters, an upper-case
\* letter, a blank and a punctuation mark.
Alphabet == {"a", "b", "A", " ", "!"}

\* The strings over Alphabet of length n, and of length at most n.
RECURSIVE StringsOfLen(_)
StringsOfLen(n) ==
    IF n = 0 THEN {<<>>}
    ELSE {Append(s, c) : s \in StringsOfLen(n - 1), c \in Alphabet}

Strings(n) == UNION {StringsOfLen(k) : k \in 0 .. n}

\* n copies of the letter "a".
Pad(n) == [k \in 1 .. n |-> "a"]

\* The texts compared: two short texts, alone or after a common prefix long
\* enough for one edit to stay within the 0.95 threshold.
InitFuzzy ==
    /\ \E pad \in {0, PadLen}, x \in Strings(MaxLen), y \in Strings(MaxLen) :
           /\ textExpected = Pad(pad) \o x
           /\ textActual = Pad(pad) \o y
    /\ matchResult = NoMatchResult
    /\ normalized = NoNormalized
    /\ comparison = NoComparison
    /\ NoSchedule
    /\ NoScore
    /\ NoRoute
    /\ NoTip
    /\ NoPage

Match ==
    /\ ~matchResult.computed
    /\ matchResult' = fuzzyMatch(textExpected, textActual)
    /\ UNCHANGED <<textExpected, textActual, normalized, comparison, schedVars,
                   scoreVars, routeVars, tipVars, pageVars>>

NextFuzzy == Match

SpecFuzzy == InitFuzzy /\ [][NextFuzzy]_vars

(***************************************************************************)
(* normalizeKorean applied to one text.                                    *)
(***************************************************************************)
\* The characters of the texts normalized: a lower-case and an upper-case
\* letter, a Hangul syllable, two kinds of whitespace, and punctuation of
\* the first class only, of the second class only and of both, an emoji
\* (its two code units behave alike) and an em dash, which no class holds.
NormalizeAlphabet ==
    {"a", "A", "HAN", " ", "TAB", "!", "ELLIPSIS", "LCORNER", ":", "(",
     "EMOJI", "EMDASH"}

RECURSIVE NormalizeStringsOfLen(_)
NormalizeStringsOfLen(n) ==
    IF n = 0 THEN {<<>>}
    ELSE {Append(s, c) : s \in NormalizeStringsOfLen(n - 1),
                         c \in NormalizeAlphabet}

InitNormalize ==
    /\ \E n \in 0 .. MaxNormalizeLen : textExpected \in NormalizeStringsOfLen(n)
    /\ textActual = <<>>
    /\ matchResult = NoMatchResult
    /\ normalized = NoNormalized
    /\ comparison = NoComparison
    /\ NoSchedule
    /\ NoScore
    /\ NoRoute
    /\ NoTip
    /\ NoPage

Normalize ==
    /\ ~normalized.computed
    /\ normalized' = [computed |-> TRUE, text |-> normalizeKorean(textExpected)]
    /\ UNCHANGED <<textExpected, textActual, matchResult, comparison, schedVars,
                   scoreVars, routeVars, tipVars, pageVars>>

NextNormalize == Normalize

SpecNormalize == InitNormalize /\ [][NextNormalize]_vars

(***************************************************************************)
(* Claims about the scheduler.                                             *)
(***************************************************************************)
Reviewed == last.rating # 0

\* C1: from getInitialState, after any sequence of ratings, easeFactor >= 1.3,
\* intervalDays >= 0 and repetitions >= 0.
C1_StateInvariants ==
    /\ state.easeFactor >= 130
    /\ state.intervalDays.n >= 0 /\ state.intervalDays.d > 0
    /\ state.repetitions >= 0

\* The floor acted: the review would have taken the ease factor below 1.3.
C1_Witness ==
    /\ Reviewed
    /\ last.prev.easeFactor - 20 < 130
    /\ last.rating = Again
    /\ state.easeFactor = 130
    /\ Len(history) = 7

\* C2: on Again, whatever the prior state, repetitions become 0 and the
\* interval exactly 1/1440 day.
C2_AgainResets ==
    (Reviewed /\ last.rating = Again) =>
        /\ state.repetitions = 0
        /\ state.intervalDays = [n |-> 1, d |-> 1440]

C2_Witness ==
    /\ Reviewed /\ last.rating = Again
    /\ last.prev.repetitions = 3
    /\ last.prev.intervalDays = [n |-> 15, d |-> 1]
    /\ last.prev.easeFactor = 1000
    /\ state.repetitions = 0

\* C3: the new ease factor is max(1.3, e + d), d = -0.20, -0.15, 0, +0.15 for
\* Again, Hard, Good, Easy, e the ease factor before the review; no ceiling.
C3_Delta(rating) ==
    IF rating = Again THEN 0 - 20
    ELSE IF rating = Hard THEN 0 - 15
    ELSE IF rating = Good THEN 0
    ELSE 15

C3_EaseUpdate ==
    Reviewed =>
        LET e == last.prev.easeFactor + C3_Delta(last.rating)
        IN  state.easeFactor = (IF e < 130 THEN 130 ELSE e)

\* An Easy review raises an ease factor that is already 10.
C3_Witness ==
    /\ Reviewed /\ last.rating = Easy
    /\ last.prev.easeFactor = 1000
    /\ state.easeFactor = 1015

RECURSIVE C6_SuccessesSinceAgain(_)
C6_SuccessesSinceAgain(h) ==
    IF h = <<>> \/ h[Len(h)] = Again THEN 0
    ELSE 1 + C6_SuccessesSinceAgain(SubSeq(h, 1, Len(h) - 1))

\* C6: repetitions become the prior repetitions + 1 on Hard, Good, Easy and 0
\* on Again, so they count the non-Again ratings since the last Again.
C6_RepetitionsCount ==
    /\ Reviewed =>
           state.repetitions =
               (IF last.rating = Again THEN 0 ELSE last.prev.repetitions + 1)
    /\ state.repetitions = C6_SuccessesSinceAgain(history)

C6_Witness ==
    /\ Len(history) = 6
    /\ history[2] = Good /\ history[3] = Again /\ history[4] = Hard
    /\ history[5] = Easy /\ history[6] = Good
    /\ state.repetitions = 3

\* The instant one millisecond after a.
C7_NextMs(a) == TimePlusMs(a, 1)

\* C7: for an injected now, nextReviewDate = newState.dueAt = now + the new
\* interval in days (to the millisecond a Date holds, fractions of a day
\* included), and isCardDue(newState, t) holds exactly for t >= that instant.
C7_DueDate ==
    Reviewed =>
        LET due == last.result.newState.dueAt
            i == last.result.newState.intervalDays
            whole == i.n \div i.d
            frac == [n |-> i.n % i.d, d |-> i.d]
            \* due - now, as whole days and milliseconds
            days == IF due.ms >= last.now.ms THEN due.day - last.now.day
                    ELSE due.day - last.now.day - 1
            ms == IF due.ms >= last.now.ms THEN due.ms - last.now.ms
                  ELSE due.ms + MsPerDay - last.now.ms
        IN  /\ last.result.nextReviewDate = due
            /\ state = last.result.newState
            /\ days = whole
            /\ RLe(Rat(ms, MsPerDay), frac)
            /\ RLt(frac, Rat(ms + 1, MsPerDay))
            /\ isCardDue(state, due)
            /\ isCardDue(state, C7_NextMs(due))
            /\ \A t \in Nows \cup {last.now, Time(due.day + 1, 0),
                                    Time(due.day, 0)} :
                   isCardDue(state, t) <=> ~(TimeLe(t, due) /\ t # due)

\* A one-minute interval from 30 seconds before midnight is due 30 seconds
\* into the next day.
C7_Witness ==
    /\ Reviewed /\ last.rating = Again
    /\ last.now = Time(1, MsPerDay - 30000)
    /\ state.dueAt = Time(2, 30000)
    /\ ~isCardDue(state, Time(2, 29999))
    /\ isCardDue(state, Time(2, 30000))

\* C8: from the initial state, Hard, Good or Easy gives an interval strictly
\* greater than the one before the review; Again gives the one-minute interval.
C8_IntervalGrows ==
    Reviewed =>
        IF last.rating = Again
        THEN state.intervalDays = [n |-> 1, d |-> 1440]
        ELSE RLt(last.prev.intervalDays, state.intervalDays)

C8_Witness ==
    /\ Reviewed /\ last.rating = Hard
    /\ last.prev.repetitions = 2
    /\ last.prev.intervalDays = [n |-> 39, d |-> 5]
    /\ state.intervalDays = [n |-> 234, d |-> 25]

(***************************************************************************)
(* Claims about the fuzzy matcher.                                         *)
(***************************************************************************)
\* Normalisation as the matcher's contract words it: no whitespace, none of
\* the listed punctuation, lower case.
C9_Plain(s) ==
    LET kept == SelectSeq(s, LAMBDA c : c \notin {" ", "!"})
    IN  [k \in 1 .. Len(kept) |-> IF kept[k] = "A" THEN "a" ELSE kept[k]]

\* C9: when the two inputs normalize to the same string (fuzzyMatch(x, x)
\* and the empty string included), similarity is 1, isMatch is true and
\* there are no differences.
C9_SameTextMatches ==
    (matchResult.computed /\ C9_Plain(textExpected) = C9_Plain(textActual)) =>
        /\ matchResult.similarity = [n |-> 1, d |-> 1]
        /\ matchResult.isMatch
        /\ matchResult.differences = <<>>

\* Two different inputs that normalize to the same string.
C9_Witness ==
    /\ matchResult.computed
    /\ textExpected = <<"A", " ">>
    /\ textActual = <<"!", "a">>
    /\ matchResult.isMatch
    /\ matchResult.normalizedExpected = <<"a">>

CompareAlphabet == {"a", "b", "c"}

RECURSIVE CompareStringsOfLen(_)
CompareStringsOfLen(n) ==
    IF n = 0 THEN {<<>>}
    ELSE {Append(s, c) : s \in CompareStringsOfLen(n - 1), c \in CompareAlphabet}

CompareStrings == UNION {CompareStringsOfLen(n) : n \in 0 .. MaxCompareLen}

InitCompare ==
    /\ textExpected \in CompareStrings
    /\ textActual \in CompareStrings
    /\ matchResult = NoMatchResult
    /\ normalized = NoNormalized
    /\ comparison = NoComparison
    /\ NoSchedule
    /\ NoScore
    /\ NoRoute
    /\ NoTip
    /\ NoPage

Compare ==
    /\ ~comparison.computed
    /\ comparison' =
           [computed |-> TRUE,
            distance |-> levenshteinDistance(textExpected, textActual),
            similarity |-> calculateSimilarity(textExpected, textActual),
            differences |-> findDifferences(textExpected, textActual),
            scan |-> findDifferencesTrace(textExpected, textActual, 0, 0,
                                          <<>>, <<>>)]
    /\ UNCHANGED <<textExpected, textActual, matchResult, normalized, schedVars,
                   scoreVars, routeVars, tipVars, pageVars>>

NextCompare == Compare

SpecCompare == InitCompare /\ [][NextCompare]_vars

(***************************************************************************)
(* Claims about normalizeKorean.                                           *)
(***************************************************************************)
\* C11: normalizeKorean is idempotent, and its result holds no whitespace
\* character, no character of the two punctuation classes and no upper-case
\* letter.
C11_NormalizeIdempotent ==
    normalized.computed =>
        LET out == normalized.text
        IN  /\ normalizeKorean(out) = out
            /\ \A k \in 1 .. Len(out) :
                   /\ out[k] \notin WhitespaceChars
                   /\ out[k] \notin KoreanPunctuation
                   /\ out[k] \notin AsciiPunctuation
                   /\ LowerChar(out[k]) = out[k]

\* A text with an upper-case letter, whitespace and punctuation of the
\* second class has been normalized to a single letter.
C11_Witness ==
    /\ normalized.computed
    /\ textExpected = <<"(", "A", "TAB">>
    /\ normalized.text = <<"a">>

(***************************************************************************)
(* Claims about levenshteinDistance and calculateSimilarity.               *)
(***************************************************************************)
\* C12: levenshteinDistance(a, b) is at most the longer length, so
\* calculateSimilarity(a, b) lies in [0, 1]; it is 1 only when a = b, and
\* it is 0 whenever exactly one of a and b is empty.
C12_SimilarityRange ==
    comparison.computed =>
        LET a == textExpected
            b == textActual
        IN  /\ comparison.distance <= Max(Len(a), Len(b))
            /\ RLe(Rat(0, 1), comparison.similarity)
            /\ RLe(comparison.similarity, Rat(1, 1))
            /\ comparison.similarity = Rat(1, 1) => a = b
            /\ (Len(a) = 0) # (Len(b) = 0) =>
                   comparison.similarity = Rat(0, 1)

\* Two different non-empty strings have been compared, with a similarity
\* strictly between 0 and 1.
C12_Witness ==
    /\ comparison.computed
    /\ textExpected = <<"a", "b", "c">>
    /\ textActual = <<"a">>
    /\ comparison.distance = 2
    /\ comparison.similarity = Rat(1, 3)

\* The strings one edit away from s: one character deleted, one character
\* replaced, or one character inserted.
C13_OneEdit(s) ==
    {SubSeq(s, 1, k - 1) \o SubSeq(s, k + 1, Len(s)) : k \in 1 .. Len(s)}
    \cup {[s EXCEPT ![k] = c] : k \in 1 .. Len(s), c \in CompareAlphabet}
    \cup {SubSeq(s, 1, k) \o <<c>> \o SubSeq(s, k + 1, Len(s)) :
              k \in 0 .. Len(s), c \in CompareAlphabet}

\* The least number of edits that turn a string of reached into b, where
\* reached is the set of strings k edits away from the start.  An edit changes
\* the length by at most one, so a string whose length is further than left
\* from b's cannot become b in left edits and is dropped.
RECURSIVE C13_EditsNeeded(_, _, _, _)
C13_EditsNeeded(reached, b, k, left) ==
    IF b \in reached THEN k
    ELSE LET next == UNION {C13_OneEdit(s) : s \in reached}
             near == {s \in next : /\ Len(s) - Len(b) <= left - 1
                                   /\ Len(b) - Len(s) <= left - 1}
         IN  C13_EditsNeeded(near, b, k + 1, left - 1)

\* C13: levenshteinDistance(a, b) is the least number of insertions,
\* deletions and substitutions of one character that turn a into b; it is
\* symmetric, distance(a, a) = 0 and distance('', b) = len(b).
C13_MinimumEdits ==
    comparison.computed =>
        LET a == textExpected
            b == textActual
        IN  /\ comparison.distance =
                   C13_EditsNeeded({a}, b, 0, Max(Len(a), Len(b)))
            /\ comparison.distance = levenshteinDistance(b, a)
            /\ a = b => comparison.distance = 0
            /\ a = <<>> => comparison.distance = Len(b)

\* A rotation has been measured: two edits (a deletion and an insertion),
\* although the strings differ at all three positions.
C13_Witness ==
    /\ comparison.computed
    /\ textExpected = <<"a", "b", "c">>
    /\ textActual = <<"b", "c", "a">>
    /\ comparison.distance = 2

(***************************************************************************)
(* Claims about findDifferences.                                           *)
(***************************************************************************)
\* The cursors after iteration k of a recorded run.
C14_After(scan, k) ==
    IF k < Len(scan.trace)
    THEN [i |-> scan.trace[k + 1].i, j |-> scan.trace[k + 1].j]
    ELSE [i |-> scan.i, j |-> scan.j]

\* C14: findDifferences terminates: every iteration of its loop advances at
\* least one cursor and neither goes back, so that after at most
\* len(expected) + len(actual) iterations both strings are consumed, and the
\* safety valve is never what ends the loop.
C14_ScanTerminates ==
    comparison.computed =>
        LET scan == comparison.scan
        IN  /\ scan.differences = comparison.differences
            /\ \A k \in 1 .. Len(scan.trace) :
                   LET before == scan.trace[k]
                       after == C14_After(scan, k)
                   IN  /\ after.i >= before.i /\ after.j >= before.j
                       /\ after.i > before.i \/ after.j > before.j
            /\ Len(scan.trace) <= Len(textExpected) + Len(textActual)
            /\ scan.i = Len(textExpected) /\ scan.j = Len(textActual)
            /\ ~scan.broke

\* A scan of two non-empty strings has ended after three iterations, two of
\* which moved one cursor only.
C14_Witness ==
    /\ comparison.computed
    /\ textExpected = <<"a", "b">>
    /\ textActual = <<"b", "a">>
    /\ Len(comparison.scan.trace) = 3
    /\ Len(comparison.differences) = 2
    /\ ~comparison.scan.broke

\* Character k (counted from 0) of s, or "NONE" past its end.
C15_At(s, k) == IF k < Len(s) THEN s[k + 1] ELSE "NONE"

\* What one step at cursors i and j emits, and the cursors after it, as the
\* classification is stated.
C15_Classify(expected, actual, i, j) ==
    LET e == C15_At(expected, i)
        a == C15_At(actual, j)
        ins == [emit |-> <<[type |-> "insert", position |-> j, actual |-> a]>>,
                i |-> i, j |-> j + 1]
        del == [emit |-> <<[type |-> "delete", position |-> i, expected |-> e]>>,
                i |-> i + 1, j |-> j]
    IN  IF e = "NONE" THEN ins
        ELSE IF a = "NONE" THEN del
        ELSE IF e = a THEN [emit |-> <<>>, i |-> i + 1, j |-> j + 1]
        ELSE IF C15_At(actual, j + 1) = e THEN ins
        ELSE IF C15_At(expected, i + 1) = a THEN del
        ELSE [emit |-> <<[type |-> "replace", position |-> i,
                          expected |-> e, actual |-> a]>>,
              i |-> i + 1, j |-> j + 1]

\* The differences emitted by iterations k .. Len(trace), in order.
RECURSIVE C15_Emitted(_, _)
C15_Emitted(trace, k) ==
    IF k > Len(trace) THEN <<>>
    ELSE trace[k].pushed \o C15_Emitted(trace, k + 1)

\* C15: findDifferences scans from the left with one cursor per string, and
\* each step is classified as: equal characters, advance both and emit
\* nothing; only actual left, insert of actual[j] at j; only expected left,
\* delete of expected[i] at i; different characters, insert if actual[j + 1]
\* = expected[i], else delete if expected[i + 1] = actual[j], else replace at
\* i with both characters.
C15_StepClassification ==
    comparison.computed =>
        LET scan == comparison.scan
        IN  /\ Len(scan.trace) > 0 => scan.trace[1].i = 0 /\ scan.trace[1].j = 0
            /\ \A k \in 1 .. Len(scan.trace) :
                   LET c == C15_Classify(textExpected, textActual,
                                         scan.trace[k].i, scan.trace[k].j)
                   IN  /\ scan.trace[k].pushed = c.emit
                       /\ C14_After(scan, k) = [i |-> c.i, j |-> c.j]
            /\ comparison.differences = C15_Emitted(scan.trace, 1)

\* A scan has met both look-aheads at once and taken the insertion, and has
\* ended with a deletion.
C15_Witness ==
    /\ comparison.computed
    /\ textExpected = <<"a", "b">>
    /\ textActual = <<"b", "a">>
    /\ comparison.differences =
           <<[type |-> "insert", position |-> 0, actual |-> "b"],
             [type |-> "delete", position |-> 1, expected |-> "b"]>>

(***************************************************************************)
(* The usefulness scorer (src/lib/usefulness/score.ts).                    *)
(***************************************************************************)
IsNum(x) == x.kind = "number"

\* ToNumber of a value of one of the kinds above.
ToNumber(x) == IF IsNum(x) THEN x ELSE NaN

\* x + y: a string or an object operand makes it a concatenation.
Plus(x, y) ==
    IF x.kind \in {"string", "function", "object"}
       \/ y.kind \in {"string", "function", "object"}
    THEN NonNumericString
    ELSE IF IsNum(x) /\ IsNum(y) THEN Num(x.v + y.v)
    ELSE NaN

\* x > y and x < y: false when an operand is not a number.
GreaterThan(x, y) == IsNum(ToNumber(x)) /\ IsNum(ToNumber(y)) /\ x.v > y.v
LessThan(x, y) == IsNum(ToNumber(x)) /\ IsNum(ToNumber(y)) /\ x.v < y.v

\* x <= y: false when an operand is not a number.
AtMost(x, y) == IsNum(ToNumber(x)) /\ IsNum(ToNumber(y)) /\ x.v <= y.v

\* x === y for numbers, NaN and strings met by the scorer.
StrictEquals(x, y) == IsNum(x) /\ IsNum(y) /\ x.v = y.v

MathMin(x, y) ==
    IF IsNum(ToNumber(x)) /\ IsNum(ToNumber(y))
    THEN (IF x.v <= y.v THEN x ELSE y)
    ELSE NaN

MathMax(x, y) ==
    IF IsNum(ToNumber(x)) /\ IsNum(ToNumber(y))
    THEN (IF x.v >= y.v THEN x ELSE y)
    ELSE NaN

\* Math.round: the nearest whole number, a half goes up.
MathRound(x) ==
    IF IsNum(x) THEN Num(((x.v + 50) \div 100) * 100) ELSE NaN

\* The names every object literal inherits from Object.prototype (one of
\* them).
ObjectPrototypeNames == {"constructor"}

\* object[name]: an own property, else an inherited one, else undefined.
GetProperty(object, name) ==
    IF name \in DOMAIN object.props THEN object.props[name]
    ELSE IF name \in ObjectPrototypeNames THEN FunctionObject
    ELSE Undefined

\* { ...a, ...b } of two objects.
Spread(a, b) ==
    Obj([name \in DOMAIN a.props \cup DOMAIN b.props |->
            IF name \in DOMAIN b.props THEN b.props[name] ELSE a.props[name]])

DEFAULT_CONFIG ==
    ScoringConfig(
        Obj([beginner |-> Num(1000), essential |-> Num(1000),
             travel |-> Num(800), food |-> Num(700), greeting |-> Num(900),
             pattern |-> Num(800), business |-> Num(600), formal |-> Num(500),
             slang |-> Num(300), rare |-> Num(0 - 500)]),
        Num(1500), Num(25), Absent)

BASE_SCORE == 5000
MAX_TAG_IMPACT == 3000

\* The reasons, by their text and the values written into it.
TagReason(sign, weight, tag) ==
    [text |-> "for tag", sign |-> sign, weight |-> weight, tag |-> tag]
CappedReason == [text |-> "tag score capped at", limit |-> MAX_TAG_IMPACT]
BaseReason == [text |-> "base score", score |-> BASE_SCORE]
PatternReason(bonus) == [text |-> "grammar pattern bonus", bonus |-> bonus]
ManualReason == [text |-> "manual score override"]
HighFrequencyReason == [text |-> "high-frequency word (rank 1-1000)"]
MediumFrequencyReason == [text |-> "medium-frequency word (rank 1000-5000)"]
LowFrequencyReason == [text |-> "low-frequency word (rank 5000+)"]

\* The loop of getTagScore from tag k on.
RECURSIVE getTagScoreLoop(_, _, _, _, _)
getTagScoreLoop(tags, weights, k, rawScore, reasons) ==
    IF k > Len(tags) THEN [rawScore |-> rawScore, reasons |-> reasons]
    ELSE LET tag == tags[k]
             weight == GetProperty(weights, tag)
         IN  IF weight = Undefined
             THEN getTagScoreLoop(tags, weights, k + 1, rawScore, reasons)
             ELSE getTagScoreLoop(tags, weights, k + 1, Plus(rawScore, weight),
                      IF GreaterThan(weight, Num(0))
                      THEN Append(reasons, TagReason("+", weight, tag))
                      ELSE IF LessThan(weight, Num(0))
                      THEN Append(reasons, TagReason("", weight, tag))
                      ELSE reasons)

getTagScore(tags, weights) ==
    LET loop == getTagScoreLoop(tags, weights, 1, Num(0), <<>>)
        rawScore == loop.rawScore
        clampedScore ==
            MathMax(Num(0 - MAX_TAG_IMPACT),
                    MathMin(Num(MAX_TAG_IMPACT), rawScore))
    IN  [score |-> clampedScore,
         reasons |-> IF ~StrictEquals(rawScore, clampedScore)
                     THEN Append(loop.reasons, CappedReason)
                     ELSE loop.reasons]

\* Mutant of getFrequencyScore: the boundaries 1000 and 5000 belong to the
\* lower tier.
getFrequencyScoreExclusive(rank) ==
    IF rank = Undefined THEN [score |-> Num(0), reason |-> Undefined]
    ELSE IF LessThan(rank, Num(100000))
    THEN [score |-> Num(2000), reason |-> HighFrequencyReason]
    ELSE IF LessThan(rank, Num(500000))
    THEN [score |-> Num(1000), reason |-> MediumFrequencyReason]
    ELSE [score |-> Num(0), reason |-> LowFrequencyReason]

getFrequencyScore(rank) ==
    IF rank = Undefined THEN [score |-> Num(0), reason |-> Undefined]
    ELSE IF AtMost(rank, Num(100000))
    THEN [score |-> Num(2000), reason |-> HighFrequencyReason]
    ELSE IF AtMost(rank, Num(500000))
    THEN [score |-> Num(1000), reason |-> MediumFrequencyReason]
    ELSE [score |-> Num(0), reason |-> LowFrequencyReason]

getPatternScore(isPattern, bonus) ==
    IF isPattern.v THEN [score |-> bonus, reason |-> PatternReason(bonus)]
    ELSE [score |-> Num(0), reason |-> Undefined]

\* Mutant of normalizeScore: rounded but not clamped.
normalizeScoreNoClamp(raw) == MathRound(raw)

normalizeScore(raw) == MathMax(Num(0), MathMin(Num(10000), MathRound(raw)))

\* Mutant of MergeConfig: the tag weights of config replace the default
\* table instead of being merged into it.
MergeConfigReplaceWeights(config) ==
    LET Over(name) ==
            IF config[name] = Absent THEN DEFAULT_CONFIG[name] ELSE config[name]
    IN  ScoringConfig(Over("tagWeights"), Over("patternBonus"),
                      Over("frequencyWeight"), Over("userLevel"))

\* The config calculateUsefulness works with: the defaults, overridden by
\* the properties config has, the tag weights merged name by name.
MergeConfig(config) ==
    LET Over(name) ==
            IF config[name] = Absent THEN DEFAULT_CONFIG[name] ELSE config[name]
    IN  ScoringConfig(
            IF config.tagWeights.kind = "object"
            THEN Spread(DEFAULT_CONFIG.tagWeights, config.tagWeights)
            ELSE DEFAULT_CONFIG.tagWeights,
            Over("patternBonus"), Over("frequencyWeight"), Over("userLevel"))

\* Mutant of PushIfPresent: the reason is put at the front of the list.
PushIfPresentFront(reasons, reason) ==
    IF reason = Undefined THEN reasons ELSE <<reason>> \o reasons

\* reasons.push(reason) under if (reason).
PushIfPresent(reasons, reason) ==
    IF reason = Undefined THEN reasons ELSE Append(reasons, reason)

calculateUsefulness(card, config) ==
    IF card.manualScore # Undefined
    THEN [score |-> normalizeScore(card.manualScore), reasons |-> <<ManualReason>>]
    ELSE LET finalConfig == MergeConfig(config)
             tagResult == getTagScore(card.tags, finalConfig.tagWeights)
             patternResult ==
                 getPatternScore(IF card.isPattern = Undefined THEN Bool(FALSE)
                                 ELSE card.isPattern,
                                 finalConfig.patternBonus)
             frequencyResult == getFrequencyScore(card.frequencyRank)
             totalScore ==
                 Plus(Plus(Plus(Num(BASE_SCORE), tagResult.score),
                           patternResult.score),
                      frequencyResult.score)
         IN  [score |-> normalizeScore(totalScore),
              reasons |->
                  PushIfPresent(
                      PushIfPresent(<<BaseReason>> \o tagResult.reasons,
                                    patternResult.reason),
                      frequencyResult.reason)]

(***************************************************************************)
(* The scorer applied to one card.                                         *)
(***************************************************************************)
\* Tags: two with a positive default weight, the one with a negative
\* default weight, one that only a custom config weighs, and one that no
\* config weighs but every object inherits as a property name.
TagNames == {"beginner", "travel", "rare", "medical", "constructor"}

RECURSIVE TagListsOfLen(_)
TagListsOfLen(n) ==
    IF n = 0 THEN {<<>>}
    ELSE {Append(l, t) : l \in TagListsOfLen(n - 1), t \in TagNames}

SevenTags ==
    <<"beginner", "essential", "greeting", "travel", "food", "pattern", "business">>

\* The tag lists scored: every short list, one tag many times over, and the
\* seven default tags whose weights sum to 58.
TagLists ==
    UNION {TagListsOfLen(n) : n \in 0 .. MaxTags}
    \cup {[k \in 1 .. n |-> "rare"] : n \in 1 .. MaxRepeatedTags}
    \cup {SevenTags, SevenTags \o <<"rare">>}

\* Ranks on both sides of the two boundaries, one of them not whole.
FrequencyRanks ==
    {Num(100), Num(100000), Num(100050), Num(100100), Num(500000), Num(500100)}

ManualScores == {Num(9500), Num(15000), Num(0 - 1000), Num(5040), Num(5050)}

Configs ==
    {NoConfig,
     ScoringConfig(Absent, Num(2500), Num(50), Absent),
     ScoringConfig(Obj([medical |-> Num(1500)]), Absent, Absent, Absent),
     ScoringConfig(Obj([rare |-> Num(0 - 4025), travel |-> Num(0)]),
                   Num(0 - 9000), Absent, Absent)}

InitScore ==
    /\ \E tags \in TagLists,
          isPattern \in {Undefined, Bool(TRUE), Bool(FALSE)},
          manualScore \in {Undefined} \cup ManualScores,
          frequencyRank \in {Undefined} \cup FrequencyRanks :
           scoreCard = CardInput(tags, isPattern, manualScore, frequencyRank)
    /\ scoreConfig \in Configs
    /\ scoring = NoScoring
    /\ NoSchedule
    /\ NoFuzzy
    /\ NoRoute
    /\ NoTip
    /\ NoPage

NotCalled == [called |-> FALSE]

\* calculateUsefulness(card, config); what the calls it makes of getTagScore
\* and getFrequencyScore return, and the config it merges, are kept beside
\* its result.
Score ==
    /\ ~scoring.computed
    /\ scoring' =
           [computed |-> TRUE,
            result |-> calculateUsefulness(scoreCard, scoreConfig),
            tagResult |->
                IF scoreCard.manualScore # Undefined THEN NotCalled
                ELSE getTagScore(scoreCard.tags,
                                 MergeConfig(scoreConfig).tagWeights),
            frequencyResult |->
                IF scoreCard.manualScore # Undefined THEN NotCalled
                ELSE getFrequencyScore(scoreCard.frequencyRank),
            finalConfig |->
                IF scoreCard.manualScore # Undefined THEN NotCalled
                ELSE MergeConfig(scoreConfig)]
    /\ UNCHANGED <<scoreCard, scoreConfig, schedVars, fuzzyVars, routeVars, tipVars, pageVars>>

NextScore == Score

SpecScore == InitScore /\ [][NextScore]_vars

(***************************************************************************)
(* Claims about the usefulness scorer.                                     *)
(***************************************************************************)
Scored == scoring.computed

\* C16: calculateUsefulness returns a whole score from 0 to 100 for every
\* card and config: any tag list, any pattern flag, any frequency rank and
\* any manual score.
C16_ScoreInRange ==
    Scored =>
        LET score == scoring.result.score
        IN  /\ IsNum(score)
            /\ score.v % 100 = 0
            /\ 0 <= score.v /\ score.v <= 10000

\* The card tagged 'constructor' alone has been scored with the default
\* config: the score is NaN, and the capping note is among the reasons.
C16_Witness ==
    /\ Scored
    /\ scoreCard = CardInput(<<"constructor">>, Undefined, Undefined, Undefined)
    /\ scoreConfig = NoConfig
    /\ scoring.result = [score |-> NaN, reasons |-> <<BaseReason, CappedReason>>]

\* The whole number of [0, 100] nearest to x hundredths (a half goes up), in
\* hundredths.
C17_RoundClamp(x) ==
    LET nearest == CHOOSE n \in (0 - 200) .. 200 :
                       100 * n - 50 <= x /\ x < 100 * n + 50
    IN  IF nearest < 0 THEN 0
        ELSE IF nearest > 100 THEN 10000
        ELSE 100 * nearest

\* C17: when the card has a manual score, calculateUsefulness returns it
\* rounded and clamped to [0, 100], with the manual-override reason as the
\* only reason, whatever the tags, pattern flag, frequency rank and config.
C17_ManualOverride ==
    Scored /\ scoreCard.manualScore # Undefined =>
        scoring.result =
            [score |-> Num(C17_RoundClamp(scoreCard.manualScore.v)),
             reasons |-> <<ManualReason>>]

\* A card with tags, the pattern flag, a rank and the manual score 150 has
\* been scored 100 under a custom config.
C17_Witness ==
    /\ Scored
    /\ scoreCard = CardInput(<<"beginner", "rare">>, Bool(TRUE), Num(15000), Num(100))
    /\ scoreConfig # NoConfig
    /\ scoring.result.score = Num(10000)

\* getTagScore and getFrequencyScore have been called.
ScoredByParts == Scored /\ scoring.tagResult # NotCalled

\* The weight the config gives a tag, 0 for a tag it does not weigh.
C18_Weight(weights, tag) ==
    IF tag \in DOMAIN weights.props THEN weights.props[tag].v ELSE 0

RECURSIVE C18_Sum(_, _, _)
C18_Sum(weights, tags, k) ==
    IF k > Len(tags) THEN 0
    ELSE C18_Weight(weights, tags[k]) + C18_Sum(weights, tags, k + 1)

C18_Clamp(x) ==
    IF x < 0 - 3000 THEN 0 - 3000 ELSE IF x > 3000 THEN 3000 ELSE x

\* C18: getTagScore returns the sum of the configured weights of the card's
\* tags (a duplicate counts each time, an unknown tag counts 0), clamped as
\* a sum to [-30, +30], and it appends the capping note exactly when the
\* clamp changed the sum.
C18_TagScore ==
    ScoredByParts =>
        LET raw == C18_Sum(MergeConfig(scoreConfig).tagWeights, scoreCard.tags, 1)
            reasons == scoring.tagResult.reasons
        IN  /\ scoring.tagResult.score = Num(C18_Clamp(raw))
            /\ (\E k \in 1 .. Len(reasons) : reasons[k] = CappedReason)
                   <=> raw # C18_Clamp(raw)

\* The tags 'beginner' and 'constructor' have been scored with the default
\* weights: the tag score is NaN and the capping note is appended, where the
\* sum of the configured weights is 10.
C18_Witness ==
    /\ ScoredByParts
    /\ scoreCard.tags = <<"beginner", "constructor">>
    /\ scoreConfig = NoConfig
    /\ scoring.tagResult =
           [score |-> NaN,
            reasons |-> <<TagReason("+", Num(1000), "beginner"), CappedReason>>]

\* C19: getFrequencyScore gives +20 with the high-frequency reason for a
\* rank of at most 1000, +10 with the medium-frequency reason for a rank
\* above 1000 and of at most 5000, +0 with the low-frequency reason for a
\* rank above 5000, and +0 with no reason when the rank is absent.
C19_FrequencyTiers ==
    ScoredByParts =>
        LET rank == scoreCard.frequencyRank
            tier == IF rank = Undefined THEN "absent"
                    ELSE IF rank.v <= 100000 THEN "high"
                    ELSE IF rank.v <= 500000 THEN "medium"
                    ELSE "low"
        IN  scoring.frequencyResult =
                CASE tier = "absent" -> [score |-> Num(0), reason |-> Undefined]
                  [] tier = "high" ->
                         [score |-> Num(2000), reason |-> HighFrequencyReason]
                  [] tier = "medium" ->
                         [score |-> Num(1000), reason |-> MediumFrequencyReason]
                  [] tier = "low" ->
                         [score |-> Num(0), reason |-> LowFrequencyReason]

\* The boundary rank 5000 has been scored: +10, medium frequency.
C19_Witness ==
    /\ ScoredByParts
    /\ scoreCard.frequencyRank = Num(500000)
    /\ scoring.frequencyResult.score = Num(1000)
    /\ scoring.frequencyResult.reason = MediumFrequencyReason

\* The frequency bonus of a rank, in hundredths.
C20_FrequencyBonus(rank) ==
    IF rank = Undefined THEN 0
    ELSE IF rank.v <= 100000 THEN 2000
    ELSE IF rank.v <= 500000 THEN 1000
    ELSE 0

\* C20: without a manual score, calculateUsefulness returns
\* clamp(round(50 + clamped tag sum + (patternBonus if isPattern, else 0) +
\* frequency bonus), 0, 100).
C20_ScoreFormula ==
    Scored /\ scoreCard.manualScore = Undefined =>
        LET finalConfig == MergeConfig(scoreConfig)
            tagSum == C18_Clamp(C18_Sum(finalConfig.tagWeights, scoreCard.tags, 1))
            pattern == IF scoreCard.isPattern = Bool(TRUE)
                       THEN finalConfig.patternBonus.v
                       ELSE 0
            frequency == C20_FrequencyBonus(scoreCard.frequencyRank)
        IN  scoring.result.score =
                Num(C17_RoundClamp(5000 + tagSum + pattern + frequency))

\* A pattern card of rank 1 tagged 'travel' and 'constructor' has been
\* scored with the default config: the score is NaN, where the formula
\* gives clamp(50 + 8 + 15 + 20) = 93.
C20_Witness ==
    /\ Scored
    /\ scoreCard = CardInput(<<"travel", "constructor">>, Bool(TRUE), Undefined, Num(100))
    /\ scoreConfig = NoConfig
    /\ scoring.result.score = NaN

\* One reason per tag from tag k on that has a non-zero configured weight, in
\* the order of the tags.
RECURSIVE C21_TagReasons(_, _, _)
C21_TagReasons(weights, tags, k) ==
    IF k > Len(tags) THEN <<>>
    ELSE LET w == C18_Weight(weights, tags[k])
             here == IF w > 0 THEN <<TagReason("+", Num(w), tags[k])>>
                     ELSE IF w < 0 THEN <<TagReason("", Num(w), tags[k])>>
                     ELSE <<>>
         IN  here \o C21_TagReasons(weights, tags, k + 1)

\* C21: without a manual score the reasons are in computation order: the
\* base-score reason, one reason per tag with a non-zero configured weight
\* in the order of the tags (a duplicate each time, a zero-weight or unknown
\* tag none), the capping note if any, the pattern reason only if isPattern,
\* and the frequency reason only if a rank is given.
C21_ReasonsOrder ==
    Scored /\ scoreCard.manualScore = Undefined =>
        LET finalConfig == MergeConfig(scoreConfig)
            tagReasons == C21_TagReasons(finalConfig.tagWeights, scoreCard.tags, 1)
            pattern == IF scoreCard.isPattern = Bool(TRUE)
                       THEN <<PatternReason(finalConfig.patternBonus)>>
                       ELSE <<>>
            frequency == IF scoreCard.frequencyRank = Undefined THEN <<>>
                         ELSE <<scoring.frequencyResult.reason>>
        IN  /\ scoring.frequencyResult.reason \in
                   {Undefined, HighFrequencyReason, MediumFrequencyReason,
                    LowFrequencyReason}
            /\ \E capped \in {<<>>, <<CappedReason>>} :
                   scoring.result.reasons =
                       <<BaseReason>> \o tagReasons \o capped \o pattern
                           \o frequency

\* Seven 'rare' tags on a pattern card of rank 1: the base reason, seven tag
\* reasons, the capping note, the pattern reason and the frequency reason.
C21_Witness ==
    /\ Scored
    /\ scoreCard = CardInput([k \in 1 .. 7 |-> "rare"], Bool(TRUE), Undefined, Num(100))
    /\ scoreConfig = NoConfig
    /\ scoring.result.reasons =
           <<BaseReason>> \o [k \in 1 .. 7 |-> TagReason("", Num(0 - 500), "rare")]
               \o <<CappedReason, PatternReason(Num(1500)), HighFrequencyReason>>

\* C22: a partial config replaces the top-level scalar fields it names and
\* merges its tagWeights into the default table, the override winning tag by
\* tag, so that a default tag the override does not name keeps its default
\* weight.
C22_ConfigMerge ==
    ScoredByParts =>
        LET final == scoring.finalConfig
            named == scoreConfig.tagWeights # Absent
            defaults == DEFAULT_CONFIG.tagWeights.props
            merged == final.tagWeights.props
        IN  /\ \A name \in {"patternBonus", "frequencyWeight", "userLevel"} :
                   final[name] = IF scoreConfig[name] # Absent
                                 THEN scoreConfig[name]
                                 ELSE DEFAULT_CONFIG[name]
            /\ ~named => final.tagWeights = DEFAULT_CONFIG.tagWeights
            /\ named =>
                   LET override == scoreConfig.tagWeights.props
                   IN  /\ DOMAIN merged = DOMAIN defaults \cup DOMAIN override
                       /\ \A tag \in DOMAIN override :
                              merged[tag] = override[tag]
                       /\ \A tag \in DOMAIN defaults \ DOMAIN override :
                              merged[tag] = defaults[tag]

\* A card tagged 'medical' and 'beginner' has been scored under a config
\* that weighs 'medical' only: 50 + 15 + 10 = 75.
C22_Witness ==
    /\ ScoredByParts
    /\ scoreCard = CardInput(<<"medical", "beginner">>, Undefined, Undefined, Undefined)
    /\ scoreConfig.tagWeights = Obj([medical |-> Num(1500)])
    /\ scoring.finalConfig.tagWeights.props["beginner"] = Num(1000)
    /\ scoring.result.score = Num(7500)

(***************************************************************************)
(* The review route (src/app/api/review/[deckId]/route.ts).  A handler is  *)
(* a sequence of steps, one for each database call it awaits; the calls    *)
(* of concurrent requests interleave.  Users, decks and cards are only     *)
(* read by the route and are fixed.  An ease factor is a number of         *)
(* hundredths and intervalDays a whole number of days.                     *)
(***************************************************************************)
\* The most requests the route receives in one run.
MaxRequests == 2
\* The largest limit parameter a GET gives.
MaxLimit == 2

\* Math.round of the non-negative fraction p/q.
MathRoundDiv(p, q) == (2 * p + q) \div (2 * q)

calculateSM2(rating, easeFactor, intervalDays, repetitions) ==
    LET newRepetitions == repetitions + 1
    IN  CASE rating = 1 ->
                 [easeFactor |-> Max(130, easeFactor - 20),
                  intervalDays |-> 0,
                  repetitions |-> 0]
          [] rating = 2 ->
                 [easeFactor |-> Max(130, easeFactor - 15),
                  intervalDays |-> Max(1, MathRoundDiv(intervalDays * 12, 10)),
                  repetitions |-> newRepetitions]
          [] rating = 3 ->
                 [easeFactor |-> easeFactor,
                  intervalDays |->
                      IF newRepetitions = 1 THEN 1
                      ELSE IF newRepetitions = 2 THEN 6
                      ELSE MathRoundDiv(intervalDays * easeFactor, 100),
                  repetitions |-> newRepetitions]
          [] rating = 4 ->
                 [easeFactor |-> easeFactor + 15,
                  intervalDays |->
                      IF newRepetitions = 1 THEN 4
                      ELSE IF newRepetitions = 2 THEN 10
                      ELSE MathRoundDiv(intervalDays * easeFactor * 13, 1000),
                  repetitions |-> newRepetitions]
          [] OTHER ->
                 [easeFactor |-> easeFactor,
                  intervalDays |-> intervalDays,
                  repetitions |-> repetitions]

\* The due date POST computes: a minute from now when the interval is 0,
\* else Date.setDate(getDate() + intervalDays).
dueAtAfter(now, intervalDays) ==
    IF intervalDays = 0 THEN TimePlusMs(now, 60 * 1000)
    ELSE Time(now.day + intervalDays, now.ms)

\* The User rows, by email; a session holds the email of its account.
Users == {"u1", "u2"}
NoSession == "none"
Sessions == {NoSession, "ghost", "u1", "u2"}
\* The Deck rows and their userId.
Decks == {"d1", "d2"}
DeckOwner == [d1 |-> "u1", d2 |-> "u2"]
\* The Card rows, their deckId and usefulnessScore.
Cards == {"c1", "c2", "c3"}
CardDeck == [c1 |-> "d1", c2 |-> "d1", c3 |-> "d2"]
CardUsefulness == [c1 |-> 50, c2 |-> 80, c3 |-> 50]

\* new Date(): the requests of one run are served at one instant.
RouteNow == Time(1, 0)

ProgressRow(id, cardId, userId, easeFactor, intervalDays, repetitions, dueAt) ==
    [id |-> id, cardId |-> cardId, userId |-> userId,
     easeFactor |-> easeFactor, intervalDays |-> intervalDays,
     repetitions |-> repetitions, dueAt |-> dueAt]

LogRow(cardProgressId, rating, reviewMode) ==
    [cardProgressId |-> cardProgressId, rating |-> rating,
     reviewMode |-> reviewMode]

NoRow == [id |-> 0]
NoCall == [called |-> FALSE]
Pending == [status |-> 0]
\* NextResponse.json({error}, {status}).
ErrorResponse(status) == [status |-> status]

\* The rows of the table that a where clause on cardId and userId selects.
ProgressOf(table, cardId, userId) ==
    {k \in DOMAIN table : table[k].cardId = cardId /\ table[k].userId = userId}

\* The rating and review mode values a request body carries.
BodyRatings == {0, 1, 3, 4, 5}
BodyReviewModes == {"recognition", "typing", "listening"}

NoBody == [parsed |-> FALSE]

\* Mutant of invalidBody: the rating is not validated.
invalidBodyModeOnly(rating, reviewMode) ==
    reviewMode \notin {"recognition", "typing"}

\* The two validations of the body, each answered with 400.
invalidBody(rating, reviewMode) ==
    \/ rating \notin {1, 2, 3, 4}
    \/ reviewMode \notin {"recognition", "typing"}

\* POST up to the lookup of the progress row: the session, the body's
\* rating and reviewMode, the user and the card in the deck are checked.
\* request.json() is not called for a request without a session.
PostReceive(session, deckId, cardId, rating, reviewMode) ==
    LET status ==
            IF session = NoSession THEN 401
            ELSE IF invalidBody(rating, reviewMode) THEN 400
            ELSE IF session \notin Users THEN 404
            ELSE IF ~(cardId \in Cards /\ CardDeck[cardId] = deckId) THEN 404
            ELSE 0
    IN  /\ Len(requests) < MaxRequests
        /\ requests' = Append(requests,
               [method |-> "POST", session |-> session, deckId |-> deckId,
                body |-> IF status = 401 THEN NoBody
                         ELSE [parsed |-> TRUE, cardId |-> cardId,
                               rating |-> rating, reviewMode |-> reviewMode],
                pc |-> IF status = 0 THEN "findProgress" ELSE "done",
                cardProgress |-> NoRow, isNewCard |-> FALSE, sm2 |-> NoCall,
                response |-> IF status = 0 THEN Pending
                             ELSE ErrorResponse(status)])
        /\ UNCHANGED <<cardProgressTable, reviewLogTable>>
        /\ UNCHANGED nonRouteVars

\* prisma.cardProgress.findUnique({where: {cardId_userId}}).
PostFindProgress(i) ==
    LET request == requests[i]
        found == ProgressOf(cardProgressTable, request.body.cardId, request.session)
    IN  /\ request.method = "POST" /\ request.pc = "findProgress"
        /\ IF found = {}
           THEN requests' = [requests EXCEPT ![i].isNewCard = TRUE,
                                             ![i].pc = "createProgress"]
           ELSE \E k \in found :
                    requests' = [requests EXCEPT
                                     ![i].cardProgress = cardProgressTable[k],
                                     ![i].pc = "updateProgress"]
        /\ UNCHANGED <<cardProgressTable, reviewLogTable>>
        /\ UNCHANGED nonRouteVars

\* Mutant of PostCreateProgress: no unique index on (cardId, userId).
PostCreateProgressNoIndex(i) ==
    LET request == requests[i]
        row == ProgressRow(Len(cardProgressTable) + 1, request.body.cardId,
                           request.session, 250, 0, 0, RouteNow)
    IN  /\ request.method = "POST" /\ request.pc = "createProgress"
        /\ cardProgressTable' = Append(cardProgressTable, row)
        /\ requests' = [requests EXCEPT ![i].cardProgress = row,
                                        ![i].pc = "updateProgress"]
        /\ UNCHANGED reviewLogTable
        /\ UNCHANGED nonRouteVars

\* prisma.cardProgress.create: the unique index on (cardId, userId) rejects
\* a second row of the pair, the handler's catch then answers 500.
PostCreateProgress(i) ==
    LET request == requests[i]
        row == ProgressRow(Len(cardProgressTable) + 1, request.body.cardId,
                           request.session, 250, 0, 0, RouteNow)
    IN  /\ request.method = "POST" /\ request.pc = "createProgress"
        /\ IF ProgressOf(cardProgressTable, request.body.cardId, request.session) = {}
           THEN /\ cardProgressTable' = Append(cardProgressTable, row)
                /\ requests' = [requests EXCEPT ![i].cardProgress = row,
                                                ![i].pc = "updateProgress"]
           ELSE /\ requests' = [requests EXCEPT
                                    ![i].response = ErrorResponse(500),
                                    ![i].pc = "done"]
                /\ UNCHANGED cardProgressTable
        /\ UNCHANGED reviewLogTable
        /\ UNCHANGED nonRouteVars

\* calculateSM2 on the row read before, the due date, and
\* prisma.cardProgress.update({where: {id}}).
PostUpdateProgress(i) ==
    LET request == requests[i]
        read == request.cardProgress
        sm2Result == calculateSM2(request.body.rating, read.easeFactor,
                                  read.intervalDays, read.repetitions)
        dueAt == dueAtAfter(RouteNow, sm2Result.intervalDays)
    IN  /\ request.method = "POST" /\ request.pc = "updateProgress"
        /\ cardProgressTable' =
               [cardProgressTable EXCEPT
                    ![read.id].easeFactor = sm2Result.easeFactor,
                    ![read.id].intervalDays = sm2Result.intervalDays,
                    ![read.id].repetitions = sm2Result.repetitions,
                    ![read.id].dueAt = dueAt]
        /\ requests' = [requests EXCEPT
               ![i].sm2 = [called |-> TRUE, rating |-> request.body.rating,
                           result |-> sm2Result, now |-> RouteNow,
                           dueAt |-> dueAt],
               ![i].pc = "createLog"]
        /\ UNCHANGED reviewLogTable
        /\ UNCHANGED nonRouteVars

\* prisma.reviewLog.create and the answer.
PostCreateLog(i) ==
    LET request == requests[i]
    IN  /\ request.method = "POST" /\ request.pc = "createLog"
        /\ reviewLogTable' = Append(reviewLogTable,
               LogRow(request.cardProgress.id, request.body.rating,
                      IF request.body.reviewMode = "recognition" THEN "FLASHCARD"
                      ELSE "TYPING"))
        /\ requests' = [requests EXCEPT
               ![i].response = [status |-> 200, success |-> TRUE,
                                nextReview |-> [intervalDays |-> request.sm2.result.intervalDays,
                                                dueAt |-> request.sm2.dueAt],
                                cardState |-> [easeFactor |-> request.sm2.result.easeFactor,
                                               repetitions |-> request.sm2.result.repetitions]],
               ![i].pc = "done"]
        /\ UNCHANGED cardProgressTable
        /\ UNCHANGED nonRouteVars

\* The limit parameter of a GET: absent (<<>>) or a number.
LimitParams == {<<>>} \cup {<<n>> : n \in 0 .. MaxLimit}

\* parseInt(searchParams.get('limit') || '20', 10).
parseLimit(param) == IF param = <<>> THEN 20 ELSE param[1]

\* The cards of a deck that have a progress row of the user due at now.
DueCardsOf(table, deckId, userId, now) ==
    {c \in Cards :
        /\ CardDeck[c] = deckId
        /\ \E k \in DOMAIN table :
               /\ table[k].cardId = c /\ table[k].userId = userId
               /\ TimeLe(table[k].dueAt, now)}

\* The cards of a deck that have no progress row of the user.
NewCardsOf(table, deckId, userId) ==
    {c \in Cards : CardDeck[c] = deckId /\ ProgressOf(table, c, userId) = {}}

\* The orders a findMany may return a set of cards in under an orderBy
\* that sorts by key (a number for each card), descending.
OrderedDesc(cards, key) ==
    {order \in [1 .. Cardinality(cards) -> cards] :
        /\ \A a, b \in DOMAIN order : a # b => order[a] # order[b]
        /\ \A a, b \in DOMAIN order : a < b => key[order[a]] >= key[order[b]]}

\* Mutant of Take: the whole result.
TakeAll(order, n) == order

\* take: n, for n >= 0.
Take(order, n) == SubSeq(order, 1, IF n < Len(order) THEN n ELSE Len(order))

\* GET up to the query of the due cards: the session, the user and the
\* deck of that user are checked.
GetReceive(session, deckId, limitParam) ==
    LET status ==
            IF session = NoSession THEN 401
            ELSE IF session \notin Users THEN 404
            ELSE IF ~(deckId \in Decks /\ DeckOwner[deckId] = session) THEN 404
            ELSE 0
    IN  /\ Len(requests) < MaxRequests
        /\ requests' = Append(requests,
               [method |-> "GET", session |-> session, deckId |-> deckId,
                limitParam |-> IF status = 401 THEN <<>> ELSE limitParam,
                limit |-> IF status = 401 THEN 0 ELSE parseLimit(limitParam),
                pc |-> IF status = 0 THEN "findDue" ELSE "done",
                now |-> RouteNow, dueCards |-> <<>>, newCards |-> <<>>,
                response |-> IF status = 0 THEN Pending
                             ELSE ErrorResponse(status)])
        /\ UNCHANGED <<cardProgressTable, reviewLogTable>>
        /\ UNCHANGED nonRouteVars

\* prisma.card.findMany of the due cards, most progress rows first.
GetFindDue(i) ==
    LET request == requests[i]
        due == DueCardsOf(cardProgressTable, request.deckId, request.session,
                          request.now)
        count == [c \in Cards |->
                     Cardinality({k \in DOMAIN cardProgressTable :
                                      cardProgressTable[k].cardId = c})]
    IN  /\ request.method = "GET" /\ request.pc = "findDue"
        /\ \E order \in OrderedDesc(due, count) :
               LET dueCards == Take(order, request.limit)
               IN  requests' = [requests EXCEPT
                       ![i].dueCards = dueCards,
                       ![i].pc = IF request.limit - Len(dueCards) > 0
                                 THEN "findNew" ELSE "countDue"]
        /\ UNCHANGED <<cardProgressTable, reviewLogTable>>
        /\ UNCHANGED nonRouteVars

\* prisma.card.findMany of the new cards, most useful first.
GetFindNew(i) ==
    LET request == requests[i]
        new == NewCardsOf(cardProgressTable, request.deckId, request.session)
        remainingSlots == request.limit - Len(request.dueCards)
    IN  /\ request.method = "GET" /\ request.pc = "findNew"
        /\ \E order \in OrderedDesc(new, CardUsefulness) :
               requests' = [requests EXCEPT
                                ![i].newCards = Take(order, remainingSlots),
                                ![i].pc = "countDue"]
        /\ UNCHANGED <<cardProgressTable, reviewLogTable>>
        /\ UNCHANGED nonRouteVars

\* prisma.card.count of the due cards and the answer.
GetCountDue(i) ==
    LET request == requests[i]
    IN  /\ request.method = "GET" /\ request.pc = "countDue"
        /\ requests' = [requests EXCEPT
               ![i].response =
                   [status |-> 200, dueCards |-> request.dueCards,
                    newCards |-> request.newCards,
                    totalDue |-> Cardinality(DueCardsOf(cardProgressTable,
                                     request.deckId, request.session,
                                     request.now))],
               ![i].pc = "done"]
        /\ UNCHANGED <<cardProgressTable, reviewLogTable>>
        /\ UNCHANGED nonRouteVars

\* The tables the route starts on: empty, or holding the rows of earlier
\* first reviews rated Good, each with its log.
ReviewedRow(id, cardId, userId, dueAt) ==
    ProgressRow(id, cardId, userId, 250, 1, 1, dueAt)

SeedProgress ==
    {<<>>,
     <<ReviewedRow(1, "c1", "u1", Time(0, 0))>>,
     <<ReviewedRow(1, "c1", "u1", Time(0, 0)), ReviewedRow(2, "c2", "u1", Time(1, 0)),
       ReviewedRow(3, "c3", "u2", Time(0, 0))>>}

InitRoute ==
    /\ cardProgressTable \in SeedProgress
    /\ reviewLogTable = [k \in DOMAIN cardProgressTable |-> LogRow(k, 3, "FLASHCARD")]
    /\ requests = <<>>
    /\ NoSchedule
    /\ NoFuzzy
    /\ NoScore
    /\ NoTip
    /\ NoPage

NextRoute ==
    \/ \E session \in Sessions, deckId \in Decks, cardId \in Cards,
          rating \in BodyRatings, reviewMode \in BodyReviewModes :
            PostReceive(session, deckId, cardId, rating, reviewMode)
    \/ \E i \in DOMAIN requests : PostFindProgress(i)
    \/ \E i \in DOMAIN requests : PostCreateProgress(i)
    \/ \E i \in DOMAIN requests : PostUpdateProgress(i)
    \/ \E i \in DOMAIN requests : PostCreateLog(i)
    \/ \E session \in Sessions, deckId \in Decks, limitParam \in LimitParams :
            GetReceive(session, deckId, limitParam)
    \/ \E i \in DOMAIN requests : GetFindDue(i)
    \/ \E i \in DOMAIN requests : GetFindNew(i)
    \/ \E i \in DOMAIN requests : GetCountDue(i)

SpecRoute == InitRoute /\ [][NextRoute]_vars

(***************************************************************************)
(* Claims about the review route.                                          *)
(***************************************************************************)
\* The POST requests whose body has been read.
PostsRead == {i \in DOMAIN requests : requests[i].method = "POST" /\ requests[i].body.parsed}

\* The body of request i fails the validation the claim describes.
C23_Invalid(request) ==
    \/ request.body.rating \notin {1, 2, 3, 4}
    \/ request.body.reviewMode \notin {"recognition", "typing"}

C24_Foreign ==
    {i \in DOMAIN requests :
        /\ requests[i].session \in Users
        /\ DeckOwner[requests[i].deckId] # requests[i].session}

\* C24: a GET or a POST of a signed-in user on a deck they do not own returns
\* none of that deck's cards and reads, creates and updates no CardProgress
\* row and creates no ReviewLog row: it is refused when it is received.
C24_OwnDecksOnly ==
    \A i \in C24_Foreign :
        /\ requests[i].pc = "done"
        /\ requests[i].response.status \notin {0, 200}
        /\ requests[i].method = "GET" =>
               requests[i].dueCards = <<>> /\ requests[i].newCards = <<>>
        /\ requests[i].method = "POST" =>
               requests[i].cardProgress = NoRow /\ requests[i].sm2 = NoCall

\* User u2 has sent GET and then a valid POST on deck d1 of user u1: the GET
\* was answered 404, the POST 200 with a new progress row and a log row.
C24_Witness ==
    /\ Len(requests) = 2
    /\ C24_Foreign = {1, 2}
    /\ requests[1].method = "GET" /\ requests[1].response = ErrorResponse(404)
    /\ requests[2].method = "POST" /\ requests[2].response.status = 200
    /\ requests[2].isNewCard
    /\ \E k \in DOMAIN cardProgressTable :
           /\ cardProgressTable[k].userId = "u2"
           /\ CardDeck[cardProgressTable[k].cardId] = "d1"
           /\ reviewLogTable[Len(reviewLogTable)].cardProgressId = k

\* The cards of a list.
C25_CardsIn(list) == {list[k] : k \in DOMAIN list}

\* The GET requests answered with cards.
C25_Answered ==
    {i \in DOMAIN requests :
        requests[i].method = "GET" /\ requests[i].response.status = 200}

C26_OneRowPerPair ==
    /\ [](\A cardId \in Cards, userId \in Users :
             Cardinality(ProgressOf(cardProgressTable, cardId, userId)) <= 1)
    /\ [][Len(cardProgressTable') > Len(cardProgressTable) =>
             /\ Len(cardProgressTable') = Len(cardProgressTable) + 1
             /\ LET created == cardProgressTable'[Len(cardProgressTable')]
                IN  /\ created.easeFactor = 250
                    /\ created.intervalDays = 0
                    /\ created.repetitions = 0
                    /\ ProgressOf(cardProgressTable, created.cardId,
                                  created.userId) = {}]_vars

\* Two first submissions of u1 for card c1 have both found no row; the
\* first has created the row and gone on, the create of the second has
\* been rejected and answered 500, and the table holds one row of the pair.
C26_Witness ==
    /\ Len(requests) = 2
    /\ \A i \in {1, 2} :
           /\ requests[i].method = "POST" /\ requests[i].session = "u1"
           /\ requests[i].body.parsed /\ requests[i].body.cardId = "c1"
           /\ requests[i].isNewCard
    /\ requests[1].response.status = 200
    /\ requests[2].response = ErrorResponse(500)
    /\ Cardinality(ProgressOf(cardProgressTable, "c1", "u1")) = 1

\* The POST requests that have called calculateSM2 and updated the row.
C27_Scheduled == {i \in PostsRead : requests[i].sm2 # NoCall}

\* What the Scheduler returns for the row request i read and its rating.
C27_Scheduler(i) ==
    LET prior == requests[i].cardProgress
    IN  calculateNextReview(
            CardState(prior.easeFactor, Rat(prior.intervalDays, 1),
                      prior.repetitions, prior.dueAt),
            requests[i].body.rating, requests[i].sm2.now)

\* C27: what the review-submission handler persists (the result of
\* calculateSM2 and the due date it computes) is what calculateNextReview
\* returns for the same prior state, rating and instant: the same
\* easeFactor, intervalDays, repetitions and due time.
C27_HandlerIsScheduler ==
    \A i \in C27_Scheduled :
        LET persisted == requests[i].sm2
            expected == C27_Scheduler(i)
        IN  /\ persisted.result.easeFactor = expected.newState.easeFactor
            /\ Rat(persisted.result.intervalDays, 1) = expected.newState.intervalDays
            /\ persisted.result.repetitions = expected.newState.repetitions
            /\ persisted.dueAt = expected.nextReviewDate
            /\ persisted.dueAt = expected.newState.dueAt

\* A card reviewed once (interval 1, repetitions 1) has been rated Easy: the
\* handler has persisted 10 days where the Scheduler returns 7.8 days.
C27_Witness ==
    \E i \in C27_Scheduled :
        /\ requests[i].body.rating = 4
        /\ requests[i].cardProgress.repetitions = 1
        /\ requests[i].sm2.result.intervalDays = 10
        /\ C27_Scheduler(i).newState.intervalDays = Rat(39, 5)
        /\ requests[i].response.status = 200

(***************************************************************************)
(* getConfusionTip (src/lib/fuzzy/match.ts).  A character is written by    *)
(* name: JAMO_E, JAMO_AE, JAMO_YE, JAMO_YAE, JAMO_OE, JAMO_WAE, JAMO_WO    *)
(* and JAMO_U are the vowel letters of COMMON_CONFUSIONS, NE and NAE the   *)
(* composed syllables of the test (n + e, n + ae), GA another syllable.    *)
(***************************************************************************)
\* The longest text getConfusionTip is applied to.
MaxTipLen == 2

COMMON_CONFUSIONS ==
    [JAMO_E |-> "JAMO_AE", JAMO_AE |-> "JAMO_E",
     JAMO_YE |-> "JAMO_YAE", JAMO_YAE |-> "JAMO_YE",
     JAMO_OE |-> "JAMO_WAE", JAMO_WAE |-> "JAMO_OE",
     JAMO_WO |-> "JAMO_U", JAMO_U |-> "JAMO_WO"]

\* The message for the confusion of act with exp, and null.
ConfusionMessage(act, exp) == [tip |-> TRUE, act |-> act, exp |-> exp]
NullTip == [tip |-> FALSE]

\* COMMON_CONFUSIONS[exp] === act; a character that is no key gives undefined.
IsConfusion(exp, act) ==
    exp \in DOMAIN COMMON_CONFUSIONS /\ COMMON_CONFUSIONS[exp] = act

shorterLength(expected, actual) ==
    IF Len(expected) <= Len(actual) THEN Len(expected) ELSE Len(actual)

\* Mutant of getConfusionTipScan: the last confusion is reported.
RECURSIVE getConfusionTipScanLast(_, _, _)
getConfusionTipScanLast(expected, actual, i) ==
    IF i > shorterLength(expected, actual)
    THEN [result |-> NullTip, examined |-> i - 1]
    ELSE LET rest == getConfusionTipScanLast(expected, actual, i + 1)
         IN  IF rest.result # NullTip THEN rest
             ELSE IF expected[i] # actual[i] /\ IsConfusion(expected[i], actual[i])
             THEN [result |-> ConfusionMessage(actual[i], expected[i]),
                   examined |-> i]
             ELSE rest

\* The loop of getConfusionTip from position i (counted from 1): what it
\* returns and the last position it examined.
RECURSIVE getConfusionTipScan(_, _, _)
getConfusionTipScan(expected, actual, i) ==
    IF i > shorterLength(expected, actual)
    THEN [result |-> NullTip, examined |-> i - 1]
    ELSE LET exp == expected[i]
             act == actual[i]
         IN  IF exp # act /\ IsConfusion(exp, act)
             THEN [result |-> ConfusionMessage(act, exp), examined |-> i]
             ELSE getConfusionTipScan(expected, actual, i + 1)

getConfusionTip(expected, actual) ==
    getConfusionTipScan(expected, actual, 1).result

TipAlphabet == {"JAMO_E", "JAMO_AE", "JAMO_WO", "JAMO_U", "NE", "NAE", "GA"}

RECURSIVE TipStringsOfLen(_)
TipStringsOfLen(n) ==
    IF n = 0 THEN {<<>>}
    ELSE {Append(s, c) : s \in TipStringsOfLen(n - 1), c \in TipAlphabet}

InitTip ==
    /\ \E n \in 0 .. MaxTipLen : textExpected \in TipStringsOfLen(n)
    /\ \E n \in 0 .. MaxTipLen : textActual \in TipStringsOfLen(n)
    /\ matchResult = NoMatchResult
    /\ normalized = NoNormalized
    /\ comparison = NoComparison
    /\ confusionTip = NoConfusionTip
    /\ NoSchedule
    /\ NoScore
    /\ NoRoute
    /\ NoPage

\* getConfusionTip(textExpected, textActual); the last position the loop
\* examined is kept beside the result.
Tip ==
    /\ ~confusionTip.computed
    /\ confusionTip' =
           [computed |-> TRUE,
            tip |-> getConfusionTip(textExpected, textActual),
            examined |-> getConfusionTipScan(textExpected, textActual, 1).examined]
    /\ UNCHANGED <<schedVars, fuzzyVars, scoreVars, routeVars, pageVars>>

NextTip == Tip

SpecTip == InitTip /\ [][NextTip]_vars

\* The positions of the common length where the expected character is
\* confused with the typed one.
C28_Confusions ==
    {i \in 1 .. shorterLength(textExpected, textActual) :
        /\ textExpected[i] \in DOMAIN COMMON_CONFUSIONS
        /\ COMMON_CONFUSIONS[textExpected[i]] = textActual[i]}

C29_Vowel ==
    [JAMO_E |-> "JAMO_E", JAMO_AE |-> "JAMO_AE", JAMO_WO |-> "JAMO_WO",
     JAMO_U |-> "JAMO_U", NE |-> "JAMO_E", NAE |-> "JAMO_AE", GA |-> "JAMO_A"]

\* The initial consonant of a character, none for a vowel letter.
C29_Initial ==
    [JAMO_E |-> "", JAMO_AE |-> "", JAMO_WO |-> "", JAMO_U |-> "",
     NE |-> "N", NAE |-> "N", GA |-> "G"]

\* C29: when at some position of the common length the expected and the
\* typed character differ in their vowel only, one having ㅔ and the other
\* ㅐ, composed syllables included ('네' against '내'), getConfusionTip
\* returns a tip and not null.
C29_ComposedConfusion ==
    (/\ confusionTip.computed
     /\ \E i \in 1 .. shorterLength(textExpected, textActual) :
            /\ C29_Initial[textExpected[i]] = C29_Initial[textActual[i]]
            /\ {C29_Vowel[textExpected[i]], C29_Vowel[textActual[i]]} =
                   {"JAMO_E", "JAMO_AE"})
        => confusionTip.tip # NullTip

\* getConfusionTip('네', '내') has been called and has returned null.
C29_Witness ==
    /\ confusionTip.computed
    /\ textExpected = <<"NE">> /\ textActual = <<"NAE">>
    /\ confusionTip.tip = NullTip

\* C30: normalizeKorean removes emoji and other symbols as well as the
\* listed punctuation: no emoji, dash or parenthesis of the text is left in
\* the output (the output of '안녕😀!' is '안녕').
C30_SymbolsRemoved ==
    normalized.computed =>
        \A k \in DOMAIN normalized.text :
            normalized.text[k] \notin {"EMOJI", "EMDASH", "(", ")"}

\* A Korean character, an emoji and '!' have been normalized: the '!' is
\* gone and the emoji is still there.
C30_Witness ==
    /\ normalized.computed
    /\ textExpected = <<"HAN", "EMOJI", "!">>
    /\ normalized.text = <<"HAN", "EMOJI">>

(***************************************************************************)
(* getIntervalDisplay (sm2.ts, src/lib/fuzzy/match.test.ts 303-328).  The  *)
(* label `${count}${unit}` is kept as its count and its unit.              *)
(***************************************************************************)
\* The largest numerator of an interval that is displayed.
MaxDisplayNum == 400

IntervalLabel(count, unit) == [count |-> count, unit |-> unit]

\* Mutant of getIntervalDisplay: weeks are shown from 7 days on.
getIntervalDisplayEarlyWeeks(days) ==
    IF days.n < days.d
    THEN LET minutes == MathRoundDiv(days.n * 24 * 60, days.d)
         IN  IF minutes < 60 THEN IntervalLabel(minutes, "m")
             ELSE IntervalLabel(MathRoundDiv(days.n * 24, days.d), "h")
    ELSE IF days.n < 7 * days.d
    THEN IntervalLabel(MathRoundDiv(days.n, days.d), "d")
    ELSE IF days.n < 60 * days.d
    THEN IntervalLabel(MathRoundDiv(days.n, days.d * 7), "w")
    ELSE IntervalLabel(MathRoundDiv(days.n, days.d * 30), "m")

getIntervalDisplay(days) ==
    IF days.n < days.d
    THEN LET minutes == MathRoundDiv(days.n * 24 * 60, days.d)
         IN  IF minutes < 60 THEN IntervalLabel(minutes, "m")
             ELSE IntervalLabel(MathRoundDiv(days.n * 24, days.d), "h")
    ELSE IF days.n < 14 * days.d
    THEN IntervalLabel(MathRoundDiv(days.n, days.d), "d")
    ELSE IF days.n < 60 * days.d
    THEN IntervalLabel(MathRoundDiv(days.n, days.d * 7), "w")
    ELSE IntervalLabel(MathRoundDiv(days.n, days.d * 30), "m")

\* The intervals displayed: whole days, tenths of a day, hours and minutes.
DisplayDenominators == {1, 10, 24, 24 * 60}
DisplayDays ==
    {Rat(n, d) : n \in 0 .. MaxDisplayNum, d \in DisplayDenominators}

InitDisplay ==
    /\ intervalDisplay \in {[computed |-> FALSE, days |-> days] : days \in DisplayDays}
    /\ preview = NoPreview
    /\ pageCheck = NoPageCheck
    /\ reviewSession = NoReviewSession
    /\ NoSchedule
    /\ NoFuzzy
    /\ NoScore
    /\ NoRoute
    /\ NoTip

\* getIntervalDisplay(days).
Display ==
    /\ ~intervalDisplay.computed
    /\ intervalDisplay' = [computed |-> TRUE, days |-> intervalDisplay.days,
                           label |-> getIntervalDisplay(intervalDisplay.days)]
    /\ UNCHANGED <<preview, pageCheck, reviewSession, schedVars, fuzzyVars,
                   scoreVars, routeVars, tipVars>>

NextDisplay == Display

SpecDisplay == InitDisplay /\ [][NextDisplay]_vars

\* k is p/q rounded to the nearest whole number, a half rounded up.
C31_Rounds(k, p, q) == (2 * k - 1) * q <= 2 * p /\ 2 * p < (2 * k + 1) * q

\* C31: an interval under 1 day is labelled in rounded minutes ('Nm') when
\* the rounded minute count is below 60 and else in rounded hours ('Nh');
\* from 1 to under 14 days in rounded days ('Nd'); from 14 to under 60
\* days in rounded weeks ('Nw'); from 60 days on in months rounded from
\* days / 30 ('Nm').
C31_IntervalLabel ==
    intervalDisplay.computed =>
        LET p == intervalDisplay.days.n
            q == intervalDisplay.days.d
            label == intervalDisplay.label
            minutesBelow60 == 2 * p * 24 * 60 < (2 * 60 - 1) * q
        IN  /\ (p < q /\ minutesBelow60) =>
                   label.unit = "m" /\ C31_Rounds(label.count, p * 24 * 60, q)
            /\ (p < q /\ ~minutesBelow60) =>
                   label.unit = "h" /\ C31_Rounds(label.count, p * 24, q)
            /\ (q <= p /\ p < 14 * q) =>
                   label.unit = "d" /\ C31_Rounds(label.count, p, q)
            /\ (14 * q <= p /\ p < 60 * q) =>
                   label.unit = "w" /\ C31_Rounds(label.count, p, 7 * q)
            /\ 60 * q <= p =>
                   label.unit = "m" /\ C31_Rounds(label.count, p, 30 * q)

\* 17.5 days have been labelled '3w' (2.5 weeks, the half rounded up).
C31_Witness ==
    /\ intervalDisplay.computed
    /\ intervalDisplay.days = Rat(175, 10)
    /\ intervalDisplay.label = IntervalLabel(3, "w")

(***************************************************************************)
(* The intervals a review page previews on its rating buttons              *)
(* (RecognitionReviewPage and TypingReviewPage, src/lib/usefulness/        *)
(* score.ts 1231-1269 and 702-739; the two effects are the same code).     *)
(***************************************************************************)
\* The longest stored interval a card is previewed with, in days.
MaxPreviewInterval == 40
\* The most repetitions a previewed card has.
MaxPreviewReps == 3

\* card.cardProgress of a new card.
NullProgress == [present |-> FALSE]
FetchedProgress(easeFactor, intervalDays, repetitions) ==
    [present |-> TRUE, easeFactor |-> easeFactor,
     intervalDays |-> intervalDays, repetitions |-> repetitions]

\* card.cardProgress?.field || fallback: the fallback stands in for a
\* missing progress and for the number 0.
OrDefault(cardProgress, field, fallback) ==
    IF cardProgress.present /\ cardProgress[field] # 0
    THEN cardProgress[field] ELSE fallback

\* formatInterval of a whole number of days; '< 1m' and '< 10m' are kept
\* as the counts 1 and 10 of the unit '< m'.
formatInterval(days) ==
    IF days = 0 THEN IntervalLabel(1, "< m")
    ELSE IF days < 1 THEN IntervalLabel(10, "< m")
    ELSE IF days = 1 THEN IntervalLabel(1, "d")
    ELSE IF days < 30 THEN IntervalLabel(days, "d")
    ELSE IF days < 365 THEN IntervalLabel(MathRoundDiv(days, 30), "mo")
    ELSE IntervalLabel(MathRoundDiv(days, 365), "y")

\* Mutant of predictedIntervals: the first and second review are told by
\* repetitions 1 and 2.
predictedIntervalsLate(cardProgress) ==
    LET currentInterval == OrDefault(cardProgress, "intervalDays", 0)
        easeFactor == OrDefault(cardProgress, "easeFactor", 250)
        repetitions == OrDefault(cardProgress, "repetitions", 0)
    IN  [again |-> 0,
         hard |-> Max(1, MathRoundDiv(currentInterval * 12, 10)),
         good |-> IF repetitions = 1 THEN 1
                  ELSE IF repetitions = 2 THEN 6
                  ELSE MathRoundDiv(currentInterval * easeFactor, 100),
         easy |-> IF repetitions = 1 THEN 4
                  ELSE IF repetitions = 2 THEN 10
                  ELSE MathRoundDiv(currentInterval * easeFactor * 13, 1000)]

\* againInterval, hardInterval, goodInterval and easyInterval of the effect.
predictedIntervals(cardProgress) ==
    LET currentInterval == OrDefault(cardProgress, "intervalDays", 0)
        easeFactor == OrDefault(cardProgress, "easeFactor", 250)
        repetitions == OrDefault(cardProgress, "repetitions", 0)
    IN  [again |-> 0,
         hard |-> Max(1, MathRoundDiv(currentInterval * 12, 10)),
         good |-> IF repetitions = 0 THEN 1
                  ELSE IF repetitions = 1 THEN 6
                  ELSE MathRoundDiv(currentInterval * easeFactor, 100),
         easy |-> IF repetitions = 0 THEN 4
                  ELSE IF repetitions = 1 THEN 10
                  ELSE MathRoundDiv(currentInterval * easeFactor * 13, 1000)]

\* The progress a card is fetched with: none for a new card; else a row as
\* POST leaves it (interval 0 exactly when repetitions is 0).
PreviewEases == {130, 150, 235, 250, 265, 280}
PreviewProgress ==
    {NullProgress}
    \cup {FetchedProgress(e, 0, 0) : e \in PreviewEases}
    \cup {FetchedProgress(e, i, r) : e \in PreviewEases,
                                     i \in 1 .. MaxPreviewInterval,
                                     r \in 1 .. MaxPreviewReps}

InitPreview ==
    /\ preview \in {[computed |-> FALSE, cardProgress |-> c] : c \in PreviewProgress}
    /\ intervalDisplay = NoDisplay
    /\ pageCheck = NoPageCheck
    /\ reviewSession = NoReviewSession
    /\ NoSchedule
    /\ NoFuzzy
    /\ NoScore
    /\ NoRoute
    /\ NoTip

\* The effect that sets nextIntervals for the card shown; beside it, what
\* POST records for each rating: calculateSM2 of the stored row, which for
\* a new card is the row POST creates first (2.5, 0, 0).
Preview ==
    LET fetched == preview.cardProgress
        row == IF fetched.present THEN fetched ELSE FetchedProgress(250, 0, 0)
        intervals == predictedIntervals(fetched)
    IN  /\ ~preview.computed
        /\ preview' =
               [computed |-> TRUE, cardProgress |-> fetched,
                intervals |-> intervals,
                nextIntervals |-> [again |-> formatInterval(intervals.again),
                                   hard |-> formatInterval(intervals.hard),
                                   good |-> formatInterval(intervals.good),
                                   easy |-> formatInterval(intervals.easy)],
                recorded |-> [rating \in 1 .. 4 |->
                                 calculateSM2(rating, row.easeFactor,
                                              row.intervalDays,
                                              row.repetitions).intervalDays]]
        /\ UNCHANGED <<intervalDisplay, pageCheck, reviewSession, schedVars,
                       fuzzyVars, scoreVars, routeVars, tipVars>>

NextPreview == Preview

SpecPreview == InitPreview /\ [][NextPreview]_vars

\* C32: for a card as it was fetched (a new card counting as ease 2.5,
\* interval 0, repetitions 0) the interval the page computes for each of
\* the four rating buttons is the intervalDays calculateSM2 records for that
\* rating, and the label on the button is the label of that number.
C32_PreviewIsRecorded ==
    preview.computed =>
        /\ preview.intervals.again = preview.recorded[1]
        /\ preview.intervals.hard = preview.recorded[2]
        /\ preview.intervals.good = preview.recorded[3]
        /\ preview.intervals.easy = preview.recorded[4]
        /\ preview.nextIntervals.again = formatInterval(preview.recorded[1])
        /\ preview.nextIntervals.hard = formatInterval(preview.recorded[2])
        /\ preview.nextIntervals.good = formatInterval(preview.recorded[3])
        /\ preview.nextIntervals.easy = formatInterval(preview.recorded[4])

\* A card reviewed once (ease 2.5, interval 1) has been previewed: 0, 1, 6
\* and 10 days, as POST records them.
C32_Witness ==
    /\ preview.computed
    /\ preview.cardProgress = FetchedProgress(250, 1, 1)
    /\ preview.recorded = <<0, 1, 6, 10>>
    /\ preview.nextIntervals.easy = IntervalLabel(10, "d")

(***************************************************************************)
(* The typing page's own matcher and handleCheck (TypingReviewPage,        *)
(* src/lib/usefulness/score.ts 564-617 and 768-779).  The page's           *)
(* levenshteinDistance fills the same matrix as the library's.             *)
(***************************************************************************)
\* The longest text that follows the common prefix of a checked answer.
MaxCheckLen == 2
\* The length of that common prefix, when there is one.
CheckPadLen == 18

\* The class [!?,\.。、] of the page's normalizeKorean.
PagePunctuation ==
    {"!", "?", ",", ".", "IDEOGRAPHIC_STOP", "IDEOGRAPHIC_COMMA"}

pageNormalizeKorean(text) ==
    toLowerCase(trim(RemoveChars(RemoveChars(text, WhitespaceChars),
                                 PagePunctuation)))

\* The page's calculateSimilarity: a whole percentage.
pageCalculateSimilarity(str1, str2) ==
    LET s1 == pageNormalizeKorean(str1)
        s2 == pageNormalizeKorean(str2)
        longer == IF Len(s1) > Len(s2) THEN s1 ELSE s2
    IN  IF s1 = s2 THEN 100
        ELSE IF Len(longer) = 0 THEN 100
        ELSE MathRoundDiv((Len(longer) - levenshteinDistance(s1, s2)) * 100,
                          Len(longer))

\* The characters of the answers checked: two letters, a blank, a mark
\* both matchers remove, one only the library removes (':') and one only
\* the page removes (the ideographic full stop).
CheckAlphabet == {"a", "b", " ", "!", ":", "IDEOGRAPHIC_STOP"}

RECURSIVE CheckStringsOfLen(_)
CheckStringsOfLen(n) ==
    IF n = 0 THEN {<<>>}
    ELSE {Append(s, c) : s \in CheckStringsOfLen(n - 1), c \in CheckAlphabet}

CheckStrings == UNION {CheckStringsOfLen(k) : k \in 0 .. MaxCheckLen}

\* The card's korean text (textExpected) and the typed answer (textActual).
InitCheck ==
    /\ \E pad \in {0, CheckPadLen}, x \in CheckStrings, y \in CheckStrings :
           /\ textExpected = Pad(pad) \o x
           /\ textActual = Pad(pad) \o y
    /\ matchResult = NoMatchResult
    /\ normalized = NoNormalized
    /\ comparison = NoComparison
    /\ pageCheck = NoPageCheck
    /\ intervalDisplay = NoDisplay
    /\ preview = NoPreview
    /\ reviewSession = NoReviewSession
    /\ NoSchedule
    /\ NoScore
    /\ NoRoute
    /\ NoTip

\* handleCheck: nothing is checked while the answer is blank.
handleCheck ==
    LET sim == pageCalculateSimilarity(textActual, textExpected)
    IN  /\ ~pageCheck.computed
        /\ pageCheck' =
               IF trim(textActual) = <<>>
               THEN [computed |-> TRUE, checked |-> FALSE, isCorrect |-> FALSE,
                     similarity |-> 0]
               ELSE [computed |-> TRUE, checked |-> TRUE, isCorrect |-> sim >= 95,
                     similarity |-> sim]
        /\ UNCHANGED <<intervalDisplay, preview, reviewSession, schedVars,
                       fuzzyVars, scoreVars, routeVars, tipVars>>

NextCheck == handleCheck

SpecCheck == InitCheck /\ [][NextCheck]_vars

\* C33: the typing page marks a checked answer correct exactly when the
\* library matcher matches it: isCorrect = fuzzyMatch(expected, answer).isMatch.
C33_PageIsLibrary ==
    (pageCheck.computed /\ pageCheck.checked) =>
        pageCheck.isCorrect = fuzzyMatch(textExpected, textActual).isMatch

\* One wrong letter in 19 has been checked: 94.7 percent, which the page
\* rounds to 95 and marks correct and the library does not match.
C33_Witness ==
    /\ pageCheck.computed /\ pageCheck.checked
    /\ textExpected = Pad(CheckPadLen) \o <<"b">>
    /\ textActual = Pad(CheckPadLen) \o <<"a">>
    /\ pageCheck.similarity = 95 /\ pageCheck.isCorrect
    /\ ~fuzzyMatch(textExpected, textActual).isMatch

\* A colon in the answer has been checked: the library removes it and
\* matches, the page keeps it and marks the answer wrong.
C33_WitnessNormalization ==
    /\ pageCheck.computed /\ pageCheck.checked
    /\ textExpected = <<"a">> /\ textActual = <<"a", ":">>
    /\ ~pageCheck.isCorrect
    /\ fuzzyMatch(textExpected, textActual).isMatch

(***************************************************************************)
(* Concurrent submissions to the review route.                             *)
(***************************************************************************)
\* The ReviewLog entries recorded for a CardProgress row.
C34_LogsOf(k) == {l \in DOMAIN reviewLogTable : reviewLogTable[l].cardProgressId = k}

\* No handler is between its first query and its answer.
C34_Quiescent == \A i \in DOMAIN requests : requests[i].pc = "done"

\* C34: once the submissions for a (user, card) have been answered, none of
\* them rated Again, the repetitions of its CardProgress row equals the
\* number of ReviewLog entries recorded for it.
C34_NoLostUpdate ==
    C34_Quiescent =>
        \A k \in DOMAIN cardProgressTable :
            (\A l \in C34_LogsOf(k) : reviewLogTable[l].rating # 1) =>
                cardProgressTable[k].repetitions = Cardinality(C34_LogsOf(k))

\* Two Good submissions for one reviewed card were both answered 200 after
\* both had read the row: three log entries, two repetitions.
C34_Witness ==
    /\ C34_Quiescent
    /\ Len(requests) = 2
    /\ \A i \in 1 .. 2 :
           /\ requests[i].method = "POST" /\ requests[i].response.status = 200
           /\ requests[i].body.rating = 3
           /\ requests[i].cardProgress.id = 1 /\ requests[i].cardProgress.repetitions = 1
    /\ cardProgressTable[1].repetitions = 2
    /\ Cardinality(C34_LogsOf(1)) = 3

(***************************************************************************)
(* The review session of the recognition and typing pages                  *)
(* (src/lib/usefulness/score.ts 1179-1348 and 646-832).  "shown" is the    *)
(* page's revealed (recognition) or checked (typing) state; cards is the   *)
(* length of the fetched list.  React 18 commits the state updates of one  *)
(* synchronous run of a handler in one render.                             *)
(***************************************************************************)
\* The most cards a fetch returns.
MaxCards == 3
\* The most rating requests awaiting their response.
MaxInFlight == 2

Pages == {"recognition", "typing"}
\* The ratings given in a session: Again and Good.
SessionRatings == {1, 3}
\* The texts of the answer input: empty, blank, a syllable.
AnswerTexts == {<<>>, <<" ">>, <<"a">>}

\* The state values a render's closures hold.
closureOf(session) ==
    [shown |-> session.shown, userAnswer |-> session.userAnswer,
     sessionComplete |-> session.sessionComplete,
     currentIndex |-> session.currentIndex,
     submitting |-> session.submitting, cards |-> session.cards]

\* The dependency list of the keyboard effect.
keyboardDeps(session) ==
    IF session.page = "recognition"
    THEN <<session.shown, session.sessionComplete, session.currentIndex>>
    ELSE <<session.shown, session.userAnswer, session.sessionComplete,
           session.currentIndex>>

\* A render after state updates: the keyboard effect installs a listener
\* of the new render only when one of its dependencies changed.
render(before, after) ==
    [after EXCEPT !.listener =
        IF keyboardDeps(before) = keyboardDeps(after) THEN before.listener
        ELSE closureOf(after)]

\* useState initial values and the listener of the first render.
mount(page) ==
    LET session == [page |-> page, cards |-> 0, currentIndex |-> 0,
                    shown |-> FALSE, userAnswer |-> <<>>, loading |-> TRUE,
                    error |-> FALSE, submitting |-> FALSE,
                    sessionStats |-> [r \in 1 .. 4 |-> 0],
                    sessionComplete |-> FALSE, inflight |-> <<>>]
    IN  session @@ [listener |-> closureOf(session)]

\* The card, its input and its buttons are rendered.
cardRendered(session) ==
    ~session.loading /\ ~session.error /\ ~session.sessionComplete

\* handleRating up to its fetch, run with the state values of a closure.
handleRating(session, closure, rating) ==
    IF closure.submitting \/ ~(closure.currentIndex < closure.cards)
    THEN session
    ELSE [session EXCEPT
             !.submitting = TRUE,
             !.inflight = Append(@, [index |-> closure.currentIndex,
                                     cards |-> closure.cards,
                                     rating |-> rating])]

RemoveAt(seq, i) == SubSeq(seq, 1, i - 1) \o SubSeq(seq, i + 1, Len(seq))

\* Mutant of submitSucceeded: the next card keeps the shown state.
submitSucceededKeepsShown(session, i) ==
    LET request == session.inflight[i]
        counted == [session EXCEPT
                       !.sessionStats[request.rating] = @ + 1,
                       !.submitting = FALSE,
                       !.inflight = RemoveAt(@, i)]
    IN  IF request.index < request.cards - 1
        THEN [counted EXCEPT !.currentIndex = request.index + 1]
        ELSE [counted EXCEPT !.sessionComplete = TRUE]

\* handleRating after an OK response: the statistics, the next card or
\* the completion, and the finally block.
submitSucceeded(session, i) ==
    LET request == session.inflight[i]
        counted == [session EXCEPT
                       !.sessionStats[request.rating] = @ + 1,
                       !.submitting = FALSE,
                       !.inflight = RemoveAt(@, i)]
    IN  IF request.index < request.cards - 1
        THEN [counted EXCEPT !.currentIndex = request.index + 1,
                             !.userAnswer = <<>>,
                             !.shown = FALSE]
        ELSE [counted EXCEPT !.sessionComplete = TRUE]

\* Mutant of submitFailed: no finally block.
submitFailedNoFinally(session, i) ==
    [session EXCEPT !.error = TRUE, !.inflight = RemoveAt(@, i)]

\* handleRating after a network error or a non-OK response: the catch
\* and the finally block.
submitFailed(session, i) ==
    [session EXCEPT !.error = TRUE, !.submitting = FALSE,
                    !.inflight = RemoveAt(@, i)]

InitSession ==
    /\ reviewSession \in {mount(page) : page \in Pages}
    /\ intervalDisplay = NoDisplay
    /\ preview = NoPreview
    /\ pageCheck = NoPageCheck
    /\ NoSchedule
    /\ NoFuzzy
    /\ NoScore
    /\ NoRoute
    /\ NoTip

SessionUnchanged ==
    UNCHANGED <<intervalDisplay, preview, pageCheck, schedVars, fuzzyVars,
                scoreVars, routeVars, tipVars>>

\* fetchCards answered OK with n cards.
FetchCardsDone(n) ==
    /\ reviewSession.loading
    /\ reviewSession' = render(reviewSession,
           IF n = 0
           THEN [reviewSession EXCEPT !.sessionComplete = TRUE, !.loading = FALSE]
           ELSE [reviewSession EXCEPT !.cards = n, !.loading = FALSE])
    /\ SessionUnchanged

\* fetchCards failed.
FetchCardsFailed ==
    /\ reviewSession.loading
    /\ reviewSession' = render(reviewSession,
           [reviewSession EXCEPT !.error = TRUE, !.loading = FALSE])
    /\ SessionUnchanged

\* A click on the unrevealed card: handleReveal.
ClickReveal ==
    /\ reviewSession.page = "recognition"
    /\ cardRendered(reviewSession) /\ ~reviewSession.shown
    /\ reviewSession' = render(reviewSession, [reviewSession EXCEPT !.shown = TRUE])
    /\ SessionUnchanged

\* The space key, handled by the installed listener.
KeySpace ==
    /\ reviewSession.page = "recognition"
    /\ ~reviewSession.listener.sessionComplete
    /\ ~reviewSession.listener.shown
    /\ reviewSession' = render(reviewSession, [reviewSession EXCEPT !.shown = TRUE])
    /\ SessionUnchanged

\* The answer input changes.
TypeAnswer(text) ==
    /\ reviewSession.page = "typing"
    /\ cardRendered(reviewSession) /\ ~reviewSession.shown
    /\ text # reviewSession.userAnswer
    /\ reviewSession' = render(reviewSession,
           [reviewSession EXCEPT !.userAnswer = text])
    /\ SessionUnchanged

\* handleCheck with the state values of a closure.
checkAnswer(session, closure) ==
    IF trim(closure.userAnswer) = <<>> \/ ~(closure.currentIndex < closure.cards)
    THEN session
    ELSE [session EXCEPT !.shown = TRUE]

\* A click on the check button, disabled while the answer is blank.
ClickCheck ==
    /\ reviewSession.page = "typing"
    /\ cardRendered(reviewSession) /\ ~reviewSession.shown
    /\ trim(reviewSession.userAnswer) # <<>>
    /\ reviewSession' = render(reviewSession,
           checkAnswer(reviewSession, closureOf(reviewSession)))
    /\ SessionUnchanged

\* The Enter key, handled by the installed listener.
KeyEnter ==
    /\ reviewSession.page = "typing"
    /\ ~reviewSession.listener.sessionComplete
    /\ ~reviewSession.listener.shown
    /\ trim(reviewSession.listener.userAnswer) # <<>>
    /\ reviewSession' = render(reviewSession,
           checkAnswer(reviewSession, reviewSession.listener))
    /\ SessionUnchanged

\* A click on a rating button, rendered with the shown card and disabled
\* while submitting.
ClickRating(rating) ==
    /\ reviewSession.page \in Pages
    /\ cardRendered(reviewSession) /\ reviewSession.shown
    /\ ~reviewSession.submitting
    /\ Len(reviewSession.inflight) < MaxInFlight
    /\ reviewSession' = render(reviewSession,
           handleRating(reviewSession, closureOf(reviewSession), rating))
    /\ SessionUnchanged

\* A key 1-4, handled by the installed listener with the handleRating of
\* the render that installed it.
KeyRating(rating) ==
    /\ reviewSession.page \in Pages
    /\ ~reviewSession.listener.sessionComplete
    /\ reviewSession.listener.shown
    /\ Len(reviewSession.inflight) < MaxInFlight
    /\ reviewSession' = render(reviewSession,
           handleRating(reviewSession, reviewSession.listener, rating))
    /\ SessionUnchanged

\* The response of a rating request is OK.
ResponseOk(i) ==
    /\ reviewSession.page \in Pages
    /\ i \in DOMAIN reviewSession.inflight
    /\ reviewSession' = render(reviewSession, submitSucceeded(reviewSession, i))
    /\ SessionUnchanged

\* The rating request fails: a network error or a non-OK response.
ResponseFailed(i) ==
    /\ reviewSession.page \in Pages
    /\ i \in DOMAIN reviewSession.inflight
    /\ reviewSession' = render(reviewSession, submitFailed(reviewSession, i))
    /\ SessionUnchanged

NextSession ==
    \/ \E n \in 0 .. MaxCards : FetchCardsDone(n)
    \/ FetchCardsFailed
    \/ ClickReveal
    \/ KeySpace
    \/ \E text \in AnswerTexts : TypeAnswer(text)
    \/ ClickCheck
    \/ KeyEnter
    \/ \E rating \in SessionRatings : ClickRating(rating)
    \/ \E rating \in SessionRatings : KeyRating(rating)
    \/ \E i \in 1 .. MaxInFlight : ResponseOk(i)
    \/ \E i \in 1 .. MaxInFlight : ResponseFailed(i)

SpecSession == InitSession /\ [][NextSession]_vars

C35_Total == LET stats == reviewSession.sessionStats
             IN  stats[1] + stats[2] + stats[3] + stats[4]

\* C35: no rating request is sent while another is in flight, and at
\* completion the total of the statistics is the number of cards.
C35_SubmittedOnce ==
    reviewSession.page \in Pages =>
        /\ Len(reviewSession.inflight) <= 1
        /\ reviewSession.sessionComplete => C35_Total = reviewSession.cards

\* While the first rating of the card is in flight the key was pressed
\* again and a second request for the same card was sent.
C35_Witness ==
    /\ reviewSession.page \in Pages
    /\ reviewSession.submitting
    /\ Len(reviewSession.inflight) = 2
    /\ reviewSession.inflight[1].index = reviewSession.inflight[2].index
    /\ reviewSession.inflight[1].index = reviewSession.currentIndex

\* The session of one card is complete with two ratings counted.
C35_WitnessTotal ==
    /\ reviewSession.page \in Pages
    /\ reviewSession.sessionComplete /\ reviewSession.inflight = <<>>
    /\ reviewSession.cards = 1 /\ C35_Total = 2

\* C36: a failed rating submission leaves the card index, the shown state
\* and the statistics as they are, sets the error and resets submitting.
C36_FailureKeepsCard ==
    [][\A i \in 1 .. MaxInFlight :
          ResponseFailed(i) =>
              /\ reviewSession'.currentIndex = reviewSession.currentIndex
              /\ reviewSession'.shown = reviewSession.shown
              /\ reviewSession'.userAnswer = reviewSession.userAnswer
              /\ reviewSession'.sessionStats = reviewSession.sessionStats
              /\ reviewSession'.sessionComplete = reviewSession.sessionComplete
              /\ reviewSession'.error
              /\ ~reviewSession'.submitting]_vars

\* A submission of the second card has failed: the card is still shown,
\* one rating is counted, the error is set and nothing is submitting.
C36_Witness ==
    /\ reviewSession.page \in Pages
    /\ reviewSession.error /\ ~reviewSession.loading
    /\ reviewSession.cards = 2 /\ reviewSession.currentIndex = 1
    /\ reviewSession.shown /\ ~reviewSession.submitting
    /\ reviewSession.inflight = <<>>
    /\ C35_Total = 1 /\ ~reviewSession.sessionComplete

\* A rating request is sent in this step.
C37_Submits == Len(reviewSession'.inflight) > Len(reviewSession.inflight)

\* This step is the OK response to the rating of the last card.
C37_LastCardSucceeds ==
    \E i \in 1 .. MaxInFlight :
        /\ ResponseOk(i)
        /\ reviewSession.inflight[i].index = reviewSession.inflight[i].cards - 1

\* This step is the OK response to the rating of an earlier card.
C37_EarlierCardSucceeds ==
    \E i \in 1 .. MaxInFlight :
        /\ ResponseOk(i)
        /\ reviewSession.inflight[i].index < reviewSession.inflight[i].cards - 1
        /\ reviewSession'.currentIndex = reviewSession.inflight[i].index + 1

\* C37: a rating is submitted only for a revealed card or a checked
\* non-blank answer; after a successful submission the next card is
\* unrevealed and unchecked; the session becomes complete exactly with the
\* successful submission of the last card or a fetch of no cards.
C37_RevealThenRate ==
    /\ [][C37_Submits =>
             /\ reviewSession.shown
             /\ reviewSession.currentIndex < reviewSession.cards
             /\ reviewSession'.inflight[Len(reviewSession'.inflight)].index
                    = reviewSession.currentIndex
             /\ reviewSession.page = "typing" =>
                    trim(reviewSession.userAnswer) # <<>>]_vars
    /\ [][(\E i \in 1 .. MaxInFlight :
               /\ ResponseOk(i)
               /\ reviewSession.inflight[i].index < reviewSession.inflight[i].cards - 1)
           => /\ C37_EarlierCardSucceeds
              /\ ~reviewSession'.shown
              /\ reviewSession'.userAnswer = <<>>]_vars
    /\ [][(C37_LastCardSucceeds \/ FetchCardsDone(0))
               => reviewSession'.sessionComplete]_vars
    /\ [][(~reviewSession.sessionComplete /\ reviewSession'.sessionComplete)
               => (C37_LastCardSucceeds \/ FetchCardsDone(0))]_vars

\* The first of two cards was revealed, rated and answered OK: the second
\* card is current and unrevealed, and the session is not complete.
C37_Witness ==
    /\ reviewSession.page \in Pages
    /\ reviewSession.cards = 2 /\ reviewSession.currentIndex = 1
    /\ C35_Total = 1 /\ reviewSession.inflight = <<>>
    /\ ~reviewSession.shown /\ reviewSession.userAnswer = <<>>
    /\ ~reviewSession.sessionComplete /\ ~reviewSession.error

\* The last card's rating was answered OK and the session is complete.
C37_WitnessComplete ==
    /\ reviewSession.page \in Pages
    /\ reviewSession.cards = 2 /\ reviewSession.currentIndex = 1
    /\ C35_Total = 2 /\ reviewSession.inflight = <<>>
    /\ reviewSession.sessionComplete

(***************************************************************************)
(* findDifferences as an edit script.                                      *)
(***************************************************************************)
\* The differences from the k-th on applied to expected from cursor i
\* (counted from 0), out being the text produced so far: equal characters
\* are copied up to the position of each difference.  ok is FALSE when a
\* difference does not fit the text at its position.
RECURSIVE C38_Apply(_, _, _, _, _)
C38_Apply(expected, differences, k, i, out) ==
    IF k > Len(differences)
    THEN [ok |-> TRUE, out |-> out \o SubSeq(expected, i + 1, Len(expected))]
    ELSE LET d == differences[k]
             cursor == IF d.type = "insert" THEN Len(out) ELSE i
             skipped == d.position - cursor
         IN  IF skipped < 0 \/ i + skipped > Len(expected)
             THEN [ok |-> FALSE, out |-> out]
             ELSE LET at == i + skipped
                      copied == out \o SubSeq(expected, i + 1, at)
                  IN  IF d.type = "insert"
                      THEN C38_Apply(expected, differences, k + 1, at,
                                     Append(copied, d.actual))
                      ELSE IF at >= Len(expected) \/ expected[at + 1] # d.expected
                      THEN [ok |-> FALSE, out |-> copied]
                      ELSE IF d.type = "delete"
                      THEN C38_Apply(expected, differences, k + 1, at + 1, copied)
                      ELSE C38_Apply(expected, differences, k + 1, at + 1,
                                     Append(copied, d.actual))

\* C38: the differences are an edit script from expected to actual: applied
\* to expected, with the equal characters copied, they give actual; the list
\* is empty exactly for equal strings and has at least levenshteinDistance
\* entries.
C38_EditScript ==
    comparison.computed =>
        LET applied == C38_Apply(textExpected, comparison.differences, 1, 0, <<>>)
        IN  /\ applied.ok
            /\ applied.out = textActual
            /\ (comparison.differences = <<>>) <=> (textExpected = textActual)
            /\ Len(comparison.differences) >= comparison.distance

\* A script longer than the distance has been computed: two insertions
\* give "bba" from "a", the scan emits a replacement and two insertions.
C38_Witness ==
    /\ comparison.computed
    /\ textExpected = <<"a">> /\ textActual = <<"b", "b", "a">>
    /\ comparison.distance = 2
    /\ Len(comparison.differences) = 3
    /\ comparison.differences[1].type = "replace"
    /\ C38_Apply(textExpected, comparison.differences, 1, 0, <<>>)
           = [ok |-> TRUE, out |-> textActual]

(***************************************************************************)
(* The order of the intervals of the four ratings.                         *)
(***************************************************************************)
\* C39: for the state a review was made in, a better rating never yields a
\* shorter interval: Again <= Hard <= Good <= Easy.
C39_BetterRatingLonger ==
    last.rating # 0 =>
        /\ RLe(calculateNextInterval(last.prev, Again),
               calculateNextInterval(last.prev, Hard))
        /\ RLe(calculateNextInterval(last.prev, Hard),
               calculateNextInterval(last.prev, Good))
        /\ RLe(calculateNextInterval(last.prev, Good),
               calculateNextInterval(last.prev, Easy))

\* A card reviewed once was rated Hard: 7.2 days, where Good gives 6.
C39_Witness ==
    /\ last.rating = Hard
    /\ last.prev.repetitions = 1
    /\ state.intervalDays = Rat(36, 5)
    /\ calculateNextInterval(last.prev, Good) = Rat(6, 1)

====
